---------------------------- MODULE Spec2Model ----------------------------
(***************************************************************************)
(* A model of the two engines of neuro_draw:                               *)
(*   - the growth engine (generateBranches / animateBranches), and          *)
(*   - the physics engine (class PhysicsSimulation),                       *)
(* both in src/src/utils/physicsSimulation.ts, with the Canvas component   *)
(* of src/src/components/Header.tsx as the caller of the growth engine.    *)
(*                                                                         *)
(* Numbers.  JavaScript numbers are modelled in fixed point:               *)
(*   - Math.random() is a value r in 0..999, standing for r/1000;          *)
(*   - progress and maxProgress are counted in fiftieths, so that          *)
(*     growthSpeed / 50 is the integer growthSpeed;                        *)
(*   - opacity is counted in thousandths;                                  *)
(*   - angles are counted in eighths of a turn, with cos and sin tabulated *)
(*     in thousandths;                                                     *)
(*   - times are integer milliseconds since the page was loaded;           *)
(*   - physics positions, velocities and accelerations are counted in      *)
(*     thousandths of a unit.                                              *)
(***************************************************************************)
EXTENDS Integers, Sequences, FiniteSets, TLC

VARIABLES
    clock,        \* Date.now(), in ms
    branches,     \* Canvas state `branches`: the live branch set
    nextId,       \* identity of the next branch object to be created
    fired,        \* per branch identity: how often onParticleGeneration ran for it
    lastCalls,    \* the onParticleGeneration calls of the latest animateBranches
    frames,       \* the number of animateBranches calls so far
    lastOp,       \* the latest growth-engine call and its arguments
    points,       \* PhysicsSimulation.points
    springs,      \* PhysicsSimulation.springs
    constraints,  \* PhysicsSimulation.constraints
    wind,         \* PhysicsSimulation.wind
    gravity,      \* PhysicsSimulation.gravity
    canvasWidth,  \* PhysicsSimulation.canvasWidth
    canvasHeight, \* PhysicsSimulation.canvasHeight
    nextPid,      \* identity of the next physics point to be created
    physCalls,    \* the number of physics-engine calls so far
    physOp,       \* the latest physics-engine call, its arguments and outcome
    gesture       \* the points handed to the gesture recognizer, and its answer

growthVars == <<clock, branches, nextId, fired, lastCalls, frames, lastOp>>

physVars == <<points, springs, constraints, wind, gravity, canvasWidth, canvasHeight,
              nextPid, physCalls, physOp>>

gestureVars == <<gesture>>

vars == <<growthVars, physVars, gestureVars>>

-----------------------------------------------------------------------------
(* Arithmetic helpers *)

Abs(a) == IF a < 0 THEN -a ELSE a

Min(a, b) == IF a < b THEN a ELSE b

Max(a, b) == IF a > b THEN a ELSE b

\* Quotient rounded toward zero, as a fixed-point stand-in for a / b.
Quot(a, b) ==
    IF (a >= 0) = (b > 0) THEN Abs(a) \div Abs(b) ELSE -(Abs(a) \div Abs(b))

\* Math.floor of the fraction a / b, b > 0.
Floor(a, b) == a \div b

\* Math.cos and Math.sin of an angle of `a` eighths of a turn, in thousandths.
Cos8(a) ==
    CASE a % 8 = 0 -> 1000
      [] a % 8 = 1 -> 707
      [] a % 8 = 2 -> 0
      [] a % 8 = 3 -> -707
      [] a % 8 = 4 -> -1000
      [] a % 8 = 5 -> -707
      [] a % 8 = 6 -> 0
      [] OTHER     -> 707

Sin8(a) == Cos8(a + 6)

\* Math.atan2(dy, dx) in eighths of a turn, for the eight compass directions
\* the modelled strokes advance in; atan2(0, 0) is 0.
Atan2(dy, dx) ==
    CASE dx > 0  /\ dy = 0 -> 0
      [] dx > 0  /\ dy > 0 -> 1
      [] dx = 0  /\ dy > 0 -> 2
      [] dx < 0  /\ dy > 0 -> 3
      [] dx < 0  /\ dy = 0 -> 4
      [] dx < 0  /\ dy < 0 -> -3
      [] dx = 0  /\ dy < 0 -> -2
      [] dx > 0  /\ dy < 0 -> -1
      [] OTHER             -> 0


-----------------------------------------------------------------------------
(* The growth engine: mode tables *)

Modes == {"neural", "electric", "organic"}

maxBranches == 500

\* generateBranches: numBranches factor, in hundredths.
DensityFactor(mode) ==
    IF mode = "electric" THEN 8 ELSE IF mode = "organic" THEN 3 ELSE 5

\* generateBranches: branchLengthMultiplier, in tenths.
BranchLengthMultiplier(mode) ==
    IF mode = "electric" THEN 15 ELSE IF mode = "organic" THEN 8 ELSE 10

\* generateBranches: angleVariation, in tenths.
AngleVariation(mode) ==
    IF mode = "electric" THEN 12 ELSE IF mode = "organic" THEN 6 ELSE 8

\* animateBranches: branchProbability, in thousandths.
BranchProbability(mode) ==
    IF mode = "electric" THEN 15 ELSE IF mode = "organic" THEN 8 ELSE 10

\* Mutant: one depth for every mode.
MaxGenerationsUniform(mode) == 5

MaxGenerations(mode) ==
    IF mode = "electric" THEN 4 ELSE IF mode = "organic" THEN 5 ELSE 3

GrowthDelay(mode) ==
    IF mode = "electric" THEN 800 ELSE IF mode = "organic" THEN 1500 ELSE 1000

colors == <<"#00E0FF", "#FF2CFB", "#A020F0", "#00FFAA", "#FF6B35">>

electricColors == <<"#00E0FF", "#4F46E5", "#8B5CF6", "#06B6D4">>

organicColors == <<"#00FFAA", "#10B981", "#34D399", "#6EE7B7">>

\* getRandomColor(generation, settings), rc the Math.random() it draws.
GetRandomColor(generation, s, rc) ==
    IF s.drawingMode = "electric" THEN electricColors[Floor(rc * 4, 1000) + 1]
    ELSE IF s.drawingMode = "organic" THEN organicColors[Floor(rc * 4, 1000) + 1]
    ELSE IF generation = 0 THEN s.selectedColor
    ELSE IF generation = 1 THEN "#FF2CFB"
    ELSE colors[Floor(rc * 5, 1000) + 1]

-----------------------------------------------------------------------------
(* generateBranches *)

\* Mutant: the number of samples is not raised to 1.
NumBranchesUnfloored(n, s) ==
    Floor(n * Min(s.branchComplexity, 25) * DensityFactor(s.drawingMode), 10000)

\* numBranches: Math.max(1, Math.floor(length * complexity * factor)) with
\* complexity = Math.min(branchComplexity / 100, 0.25).
NumBranches(n, s) ==
    Max(1, Floor(n * Min(s.branchComplexity, 25) * DensityFactor(s.drawingMode), 10000))

\* Mutant: the samples are counted back from the last point of the stroke.
PointIndexFromEnd(n, i, num) == n - 1 - Floor((n - 1) * i, num)

\* pointIndex of sample i (from 0): Math.floor((length - 1) * (i / numBranches)).
PointIndex(n, i, num) == Floor((n - 1) * i, num)

\* numInitialBranches: 1..3 in electric mode, 1..2 otherwise.
NumInitialBranches(s, rn) ==
    IF s.drawingMode = "electric" THEN Floor(rn * 3, 1000) + 1
    ELSE Floor(rn * 2, 1000) + 1

\* The branch pushed for one (sample, j) of generateBranches.  `stroke` is a
\* sequence (indexed from 1) of points; r holds the Math.random() draws.
SeedBranch(stroke, pointIndex, s, r, now, id) ==
    LET point == stroke[pointIndex + 1]
        strokeAngle ==
            IF pointIndex < Len(stroke) - 1
            THEN LET nextPoint == stroke[pointIndex + 2]
                 IN  Atan2(nextPoint.y - point.y, nextPoint.x - point.x)
            ELSE 0
        angleOffset == Quot((r.a - 500) * 4 * AngleVariation(s.drawingMode), 10000)
        angle == strokeAngle + angleOffset
        length == Quot((30000 + r.l * 50) * BranchLengthMultiplier(s.drawingMode), 10000)
    IN  [ id |-> id, parent |-> 0,
          startX |-> point.x, startY |-> point.y,
          endX |-> point.x + Quot(Cos8(angle) * length, 1000),
          endY |-> point.y + Quot(Sin8(angle) * length, 1000),
          angle |-> angle, length |-> length,
          generation |-> 0,
          progress |-> 0,
          maxProgress |-> 3000 + 2 * r.p,
          color |-> GetRandomColor(0, s, r.c),
          opacity |-> 800 + Floor(r.o, 5),
          lastGrowth |-> now + 2 * r.t ]

\* Mutant: only the empty stroke is turned away.
GenerateBranchesFromOnePoint(stroke, s, r, now, firstId) ==
    IF Len(stroke) < 1 THEN << >>
    ELSE LET num  == Max(1, Floor(Len(stroke) * Min(s.branchComplexity, 25)
                                   * DensityFactor(s.drawingMode), 10000))
             init == IF s.drawingMode = "electric" THEN Floor(r.n * 3, 1000) + 1
                     ELSE Floor(r.n * 2, 1000) + 1
         IN  [ k \in 1..(num * init) |->
                 [ id |-> firstId + k - 1, parent |-> 0,
                   startX |-> stroke[1].x, startY |-> stroke[1].y,
                   endX |-> stroke[1].x, endY |-> stroke[1].y,
                   angle |-> 0, length |-> 30,
                   generation |-> 0, progress |-> 0, maxProgress |-> 3000 + 2 * r.p,
                   color |-> s.selectedColor, opacity |-> 800,
                   lastGrowth |-> now + 2 * r.t ] ]

\* generateBranches(strokePoints, settings): the branches in push order, the
\* k-th of them (from 1) being object firstId + k - 1.
GenerateBranches(stroke, s, r, now, firstId) ==
    IF Len(stroke) < 2 THEN << >>
    ELSE LET num  == NumBranches(Len(stroke), s)
             init == NumInitialBranches(s, r.n)
         IN  [ k \in 1..(num * init) |->
                 SeedBranch(stroke, PointIndex(Len(stroke), (k - 1) \div init, num),
                            s, r, now, firstId + k - 1) ]

-----------------------------------------------------------------------------
(* animateBranches *)

\* Mutant: a branch grows again when exactly 16 ms have passed.
ShouldGrowAtSixteen(branch, now) ==
    branch.progress < branch.maxProgress /\ now - branch.lastGrowth >= 16

\* The growth tick's condition (line 973).
ShouldGrow(branch, now) ==
    branch.progress < branch.maxProgress /\ now - branch.lastGrowth > 16

\* Mutant: the tick is not cut at maxProgress.
GrowUnclamped(branch, speed, now) ==
    [branch EXCEPT !.progress = branch.progress + speed, !.lastGrowth = now]

\* Mutant: the tick leaves lastGrowth as it was.
GrowUntimed(branch, speed, now) ==
    [branch EXCEPT !.progress = Min(branch.maxProgress, branch.progress + speed)]

\* Mutant: the tick restarts the throttle and adds nothing to progress.
GrowStalled(branch, speed, now) ==
    [branch EXCEPT !.lastGrowth = now]

\* The branch after its growth tick (lines 974-975); speed is growthSpeed,
\* that is speedMultiplier in fiftieths.
Grow(branch, speed, now) ==
    [branch EXCEPT !.progress = Min(branch.maxProgress, branch.progress + speed),
                   !.lastGrowth = now]

\* Mutant: the call is made on every tick of a growing branch.
NotifiesEveryTick(prev, branch, s, cb) ==
    /\ s.particleEffects
    /\ cb
    /\ prev.progress < branch.maxProgress

\* Whether the growth tick that took `prev` to `branch` calls
\* onParticleGeneration (line 977); cb: the callback was supplied.
Notifies(prev, branch, s, cb) ==
    /\ s.particleEffects
    /\ cb
    /\ branch.progress >= branch.maxProgress
    /\ prev.progress < branch.maxProgress

\* The arguments of that call (lines 978-980), with the object it is about.
ParticleCall(branch) ==
    [ id |-> branch.id,
      x |-> branch.startX + Quot(Cos8(branch.angle) * branch.length, 1000),
      y |-> branch.startY + Quot(Sin8(branch.angle) * branch.length, 1000),
      color |-> branch.color ]

\* Math.random() < branchProbability * speedMultiplier, rd the draw.
DrawSucceeds(rd, speed, mode) == rd * 50 < BranchProbability(mode) * speed

\* Mutant: a branch spawns when exactly growthDelay has passed.
ShouldSpawnAtDelay(branch, rd, speed, s, now, len) ==
    /\ branch.progress >= branch.maxProgress
    /\ branch.generation < MaxGenerations(s.drawingMode)
    /\ DrawSucceeds(rd, speed, s.drawingMode)
    /\ now - branch.lastGrowth >= GrowthDelay(s.drawingMode)
    /\ len < maxBranches

\* The spawn condition (lines 986-992); len is newBranches.length.
ShouldSpawn(branch, rd, speed, s, now, len) ==
    /\ branch.progress >= branch.maxProgress
    /\ branch.generation < MaxGenerations(s.drawingMode)
    /\ DrawSucceeds(rd, speed, s.drawingMode)
    /\ now - branch.lastGrowth > GrowthDelay(s.drawingMode)
    /\ len < maxBranches

\* numNewBranches (lines 993-994).
NumNewBranches(s, rn) ==
    IF s.drawingMode = "electric" THEN Floor(rn * 2, 1000) + 1 ELSE 1

\* The child pushed at lines 1007-1020.
Child(branch, s, r, now, id) ==
    LET angleDeviation ==
            IF s.drawingMode = "organic"
            THEN Quot((r.a - 500) * 4 * 4, 10000)
            ELSE Quot((r.a - 500) * 4 * 6, 10000)
        newAngle  == branch.angle + angleDeviation
        newLength == Quot(branch.length * (6000 + 3 * r.l), 10000)
        startX == branch.startX + Quot(Cos8(branch.angle) * branch.length, 1000)
        startY == branch.startY + Quot(Sin8(branch.angle) * branch.length, 1000)
    IN  [ id |-> id, parent |-> branch.id,
          startX |-> startX, startY |-> startY,
          endX |-> startX + Quot(Cos8(newAngle) * newLength, 1000),
          endY |-> startY + Quot(Sin8(newAngle) * newLength, 1000),
          angle |-> newAngle, length |-> newLength,
          generation |-> branch.generation + 1,
          progress |-> 0,
          maxProgress |-> 2000 + Floor(3 * r.p, 2),
          color |-> GetRandomColor(branch.generation + 1, s, r.c),
          opacity |-> Max(300, branch.opacity - branch.generation * 150),
          lastGrowth |-> now + r.t ]

\* Whether a child may still be pushed (line 1006); len is newBranches.length.
RoomForChild(len) == len < maxBranches

\* The loop of lines 996-1022: the children of `branch` pushed onto `out`.
RECURSIVE PushChildren(_, _, _, _, _, _, _)
PushChildren(k, out, nid, branch, s, r, now) ==
    IF k = 0 THEN [out |-> out, nid |-> nid]
    ELSE IF RoomForChild(Len(out))
         THEN PushChildren(k - 1, Append(out, Child(branch, s, r, now, nid)),
                           nid + 1, branch, s, r, now)
         ELSE PushChildren(k - 1, out, nid, branch, s, r, now)

\* activeBranches (line 951): branches.slice(0, maxBranches).
ActiveBranches(bs) == SubSeq(bs, 1, Min(Len(bs), maxBranches))

\* One round of the forEach of lines 971-1026, for the element `prev` at
\* position i.  acc.out is newBranches, acc.calls the onParticleGeneration
\* calls made, acc.nid the identity of the next object created.  draws is the
\* set of positions of activeBranches whose spawn draw is 0; the other
\* positions draw 0.999.
Visit(acc, prev, i, speed, s, cb, draws, r, now) ==
    LET grown  == IF ShouldGrow(prev, now) THEN Grow(prev, speed, now) ELSE prev
        calls  == IF ShouldGrow(prev, now) /\ Notifies(prev, grown, s, cb)
                  THEN acc.calls \cup {ParticleCall(grown)}
                  ELSE acc.calls
        rd     == IF i \in draws THEN 0 ELSE 999
        spawn  == ShouldSpawn(grown, rd, speed, s, now, Len(acc.out) + 1)
        branch == IF spawn THEN [grown EXCEPT !.lastGrowth = now] ELSE grown
        pushed == IF spawn
                  THEN PushChildren(NumNewBranches(s, r.n), Append(acc.out, branch),
                                    acc.nid, grown, s, r, now)
                  ELSE [out |-> Append(acc.out, branch), nid |-> acc.nid]
    IN  [out |-> pushed.out, calls |-> calls, nid |-> pushed.nid]

\* The forEach of lines 971-1026 over the positions lo..hi, in order (the
\* range is halved so that the evaluation stays shallow).
RECURSIVE ForEach(_, _, _, _, _, _, _, _, _, _)
ForEach(lo, hi, active, acc, speed, s, cb, draws, r, now) ==
    IF lo > hi THEN acc
    ELSE IF lo = hi
         THEN CHOOSE res \in { Visit(a, p, lo, speed, s, cb, draws, r, now) :
                               a \in {acc}, p \in {active[lo]} } : TRUE
         ELSE LET mid == (lo + hi) \div 2
              IN  CHOOSE res \in { ForEach(mid + 1, hi, active, a, speed, s, cb, draws, r, now) :
                                   a \in {ForEach(lo, mid, active, acc, speed, s, cb, draws, r, now)} } :
                      TRUE

\* Mutant: the pulse also starts the branch's growth again.
PulseRegrows(branch, s, now) ==
    IF branch.progress >= branch.maxProgress /\ now % 100 < 16
    THEN [branch EXCEPT !.progress = 0, !.opacity = Max(300, branch.opacity - 50)]
    ELSE branch

\* The opacity pulse of lines 1028-1036.  The phase is kept in microradians
\* and sin is read from the table at the eighth of a turn it falls in.
Pulse(branch, s, now) ==
    IF branch.progress >= branch.maxProgress /\ now % 100 < 16
    THEN LET pulseIntensity == IF s.drawingMode = "electric" THEN 100 ELSE 50
             pulseSpeed     == IF s.drawingMode = "electric" THEN 2000 ELSE 1000
             phase    == now * pulseSpeed + branch.startX * 10000
             pulsePhase == Quot(phase, 785398)
         IN  [branch EXCEPT !.opacity =
                 Max(300, branch.opacity + Quot(Sin8(pulsePhase) * pulseIntensity, 1000))]
    ELSE branch

\* animateBranches(branches, growthSpeed, settings, onParticleGeneration):
\* [out: the returned array, calls: the callback's calls, nid].
AnimateBranches(bs, speed, s, cb, draws, r, now, nid) ==
    CHOOSE res \in
        { [ out   |-> [k \in 1..Len(done.out) |-> Pulse(done.out[k], s, now)],
            calls |-> done.calls,
            nid   |-> done.nid ] :
          done \in { ForEach(1, Min(Len(bs), maxBranches), active,
                             [out |-> << >>, calls |-> {}, nid |-> nid],
                             speed, s, cb, draws, r, now) :
                     active \in {ActiveBranches(bs)} } } : TRUE

-----------------------------------------------------------------------------
(* The growth engine as driven by the Canvas component *)

\* Bounds of the exploration.
MaxFrames == 2

MaxObjects == 2

CapSlack == 1

CapExtra == 1

CapFrames == 1

DeepFrames == 1

DeepExtra == 1

LongStrokeLen == 100

MaxLive == 4

SeedMaxLive == 1

SeedMaxObjects == 7

MaxDraws == 1

Pt(x, y) == [x |-> x, y |-> y]

\* A stroke of n points advancing to the right.
LongStroke(n) == [i \in 1..n |-> Pt(2 * i, 50)]

\* The strokes handed to generateBranches.
Strokes ==
    { << >>,
      << Pt(3, 4) >>,
      << Pt(0, 0), Pt(100, 0) >>,
      << Pt(10, 10), Pt(10, 20), Pt(0, 30) >>,
      LongStroke(LongStrokeLen) }

\* The settings handed to the engine (GrowthSettings, src/src/App.tsx).
Settings(mode, pe, bc) ==
    [ drawingMode |-> mode, particleEffects |-> pe,
      selectedColor |-> "#00E0FF", branchComplexity |-> bc ]

\* The Math.random() draws of one call, each in thousandths: n for the
\* counts, a for angles, l for lengths, p for maxProgress, c for colours,
\* o for opacity, t for the start delay.  One call uses the same draws for
\* every branch it creates.
Draw(n, a, l, p, c, o, t) ==
    [n |-> n, a |-> a, l |-> l, p |-> p, c |-> c, o |-> o, t |-> t]

Draws == { Draw(0, 0, 0, 0, 0, 0, 0),
           Draw(999, 999, 999, 999, 999, 999, 0),
           Draw(500, 0, 999, 0, 500, 0, 999) }

NoOp == [ kind |-> "init", inLen |-> 0, firstNew |-> 1, cb |-> FALSE, pe |-> FALSE,
          mode |-> "neural", speed |-> 0, strokeLen |-> 0, stroke |-> << >>,
          draws |-> {} ]

\* The state of the canvas's growth engine as one record.
Growth == [ clock |-> clock, branches |-> branches, nextId |-> nextId, fired |-> fired,
            lastCalls |-> lastCalls, frames |-> frames, lastOp |-> lastOp ]

EmptyCanvas == [ clock |-> 0, branches |-> << >>, nextId |-> 1, fired |-> << >>,
                 lastCalls |-> {}, frames |-> 0, lastOp |-> NoOp ]

\* Date.now() advances by d ms.
Ticked(g, d) == [g EXCEPT !.clock = g.clock + d]

\* Canvas.stopDrawing, lines 527-528 of Header.tsx: generateBranches on the
\* finished stroke, the result appended to the live set.
SeededWith(g, new, stroke, s) ==
    [g EXCEPT
       !.branches = g.branches \o new,
       !.nextId = g.nextId + Len(new),
       !.fired = [id \in 1..(g.nextId + Len(new) - 1) |->
                    IF id \in DOMAIN g.fired THEN g.fired[id] ELSE 0],
       !.lastCalls = {},
       !.lastOp = [ kind |-> "seed", inLen |-> Len(g.branches),
                    firstNew |-> g.nextId, cb |-> FALSE, pe |-> s.particleEffects,
                    mode |-> s.drawingMode, speed |-> 0, strokeLen |-> Len(stroke),
                    stroke |-> stroke, draws |-> {} ]]

Seeded(g, stroke, s, r) ==
    CHOOSE res \in
        { SeededWith(g0, GenerateBranches(stroke, s, r, g0.clock, g0.nextId), stroke, s) :
          g0 \in {g} } : TRUE

\* Canvas.animate, line 538 of Header.tsx: the live set replaced by
\* animateBranches of it, at the time g.clock.
SteppedWith(g, res, speed, s, cb, draws) ==
    [g EXCEPT
       !.branches = res.out,
       !.nextId = res.nid,
       !.fired = [id \in 1..(res.nid - 1) |->
                    (IF id \in DOMAIN g.fired THEN g.fired[id] ELSE 0)
                    + (IF \E c \in res.calls : c.id = id THEN 1 ELSE 0)],
       !.lastCalls = res.calls,
       !.frames = g.frames + 1,
       !.lastOp = [ kind |-> "step", inLen |-> Len(g.branches),
                    firstNew |-> g.nextId, cb |-> cb, pe |-> s.particleEffects,
                    mode |-> s.drawingMode, speed |-> speed, strokeLen |-> 0,
                    stroke |-> << >>, draws |-> draws ]]

Stepped(g, speed, s, cb, draws, r) ==
    CHOOSE res \in
        { SteppedWith(g0, AnimateBranches(g0.branches, speed, s, cb, draws, r,
                                          g0.clock, g0.nextId), speed, s, cb, draws) :
          g0 \in {g} } : TRUE

\* The regenerate effect, lines 736-741 of Header.tsx: setBranches([]).
Cleared(g) ==
    [g EXCEPT
       !.branches = << >>,
       !.lastCalls = {},
       !.lastOp = [NoOp EXCEPT !.kind = "clear", !.inLen = Len(g.branches),
                               !.firstNew = g.nextId]]

IsGrowth(g) ==
    /\ clock = g.clock
    /\ branches = g.branches
    /\ nextId = g.nextId
    /\ fired = g.fired
    /\ lastCalls = g.lastCalls
    /\ frames = g.frames
    /\ lastOp = g.lastOp

BecomesGrowth(g) ==
    /\ clock' = g.clock
    /\ branches' = g.branches
    /\ nextId' = g.nextId
    /\ fired' = g.fired
    /\ lastCalls' = g.lastCalls
    /\ frames' = g.frames
    /\ lastOp' = g.lastOp

Seed(stroke, s, r, limit) ==
    /\ nextId + Len(GenerateBranches(stroke, s, r, clock, nextId)) - 1 <= limit
    /\ BecomesGrowth(Seeded(Growth, stroke, s, r))

\* One frame: d ms after the previous call, animateBranches runs.
Step(d, speed, s, cb, draws, r) ==
    BecomesGrowth(Stepped(Ticked(Growth, d), speed, s, cb, draws, r))

Clear == BecomesGrowth(Cleared(Growth))

-----------------------------------------------------------------------------
(* class PhysicsSimulation (lines 27-344 of physicsSimulation.ts)           *)
(*                                                                         *)
(* A simulation is a record of the object's fields.  A point carries, next *)
(* to its fields, its identity pid and the position x0, y0 it was added    *)
(* at; no operation reads them.  Masses are whole numbers; stiffness,      *)
(* damping, strength, gravity and wind are counted in thousandths.         *)

\* n whole units, in thousandths.
Units(n) == n * 1000

\* The product of two numbers counted in thousandths.
Mul(a, b) == Quot(a * b, 1000)

RECURSIVE SqrtBetween(_, _, _)
SqrtBetween(n, lo, hi) ==
    IF lo >= hi THEN lo
    ELSE LET mid == (lo + hi + 1) \div 2
         IN  IF mid * mid <= n THEN SqrtBetween(n, mid, hi)
             ELSE SqrtBetween(n, lo, mid - 1)

\* Math.sqrt, rounded down.
Sqrt(n) == SqrtBetween(n, 0, 46340)

\* Math.sqrt(dx * dx + dy * dy); beyond 46 units the squares are taken of
\* tenths of a unit.
Distance(dx, dy) ==
    IF Abs(dx) + Abs(dy) <= 46000 THEN Sqrt(dx * dx + dy * dy)
    ELSE 100 * Sqrt(Quot(dx, 100) * Quot(dx, 100) + Quot(dy, 100) * Quot(dy, 100))

\* 0.1 (line 130)
windForce == 100

\* 0.05 (line 165)
dampingForce == 50

\* 10 (line 188)
minDistance == Units(10)

\* 0.999 (line 246)
airResistance == 999

\* 5 (line 255)
margin == Units(5)

\* -0.3, the factor of a bounce (lines 258, 262, 266, 270)
bounce == -300

\* The fields of a new PhysicsSimulation (lines 28-34).
NewSim ==
    [ points |-> << >>, springs |-> << >>, constraints |-> << >>,
      wind |-> [x |-> 0, y |-> 0], gravity |-> 0,
      canvasWidth |-> Units(800), canvasHeight |-> Units(600) ]

\* this.points[idx] is an element of the array.
Defined(ps, idx) == idx \in 0..(Len(ps) - 1)

setCanvasSize(sim, width, height) ==
    [sim EXCEPT !.canvasWidth = width, !.canvasHeight = height]

setGravity(sim, g) == [sim EXCEPT !.gravity = g]

setWind(sim, windX, windY) == [sim EXCEPT !.wind = [x |-> windX, y |-> windY]]

\* addPoint returns the index Len(sim.points).
addPoint(sim, x, y, mass, fixed, pid) ==
    [sim EXCEPT !.points =
        Append(@, [ pid |-> pid, x0 |-> x, y0 |-> y,
                    x |-> x, y |-> y, vx |-> 0, vy |-> 0, ax |-> 0, ay |-> 0,
                    mass |-> mass, fixed |-> fixed ])]

\* addSpring lets an index below 0 past its range check (line 63) and then
\* reads a field of undefined (lines 67-68): a TypeError.
addSpringThrows(sim, point1, point2) ==
    /\ ~ (point1 >= Len(sim.points) \/ point2 >= Len(sim.points))
    /\ (~ Defined(sim.points, point1) \/ ~ Defined(sim.points, point2))

\* Mutant: a spring's rest length is the distance of its first point from the
\* origin.
addSpringRestOfFirst(sim, point1, point2, stiffness, damping) ==
    IF point1 >= Len(sim.points) \/ point2 >= Len(sim.points) THEN sim
    ELSE IF addSpringThrows(sim, point1, point2) THEN sim
    ELSE LET p1 == sim.points[point1 + 1]
         IN  [sim EXCEPT !.springs =
                 Append(@, [ point1 |-> point1, point2 |-> point2,
                             restLength |-> Distance(p1.x, p1.y),
                             stiffness |-> stiffness, damping |-> damping ])]

addSpring(sim, point1, point2, stiffness, damping) ==
    IF point1 >= Len(sim.points) \/ point2 >= Len(sim.points) THEN sim
    ELSE IF addSpringThrows(sim, point1, point2) THEN sim
    ELSE LET p1 == sim.points[point1 + 1]
             p2 == sim.points[point2 + 1]
         IN  [sim EXCEPT !.springs =
                 Append(@, [ point1 |-> point1, point2 |-> point2,
                             restLength |-> Distance(p2.x - p1.x, p2.y - p1.y),
                             stiffness |-> stiffness, damping |-> damping ])]

addDistanceConstraint(sim, point1, point2, distance, strength) ==
    [sim EXCEPT !.constraints =
        Append(@, [ type |-> "distance", points |-> <<point1, point2>>,
                    targetValue |-> distance, strength |-> strength ])]

RECURSIVE AddPointsAllFixed(_, _, _, _, _)
\* A first loop that fixes every point of the chain, not only its root.
AddPointsAllFixed(sim, pts, k, mass, pid) ==
    IF k > Len(pts) THEN sim
    ELSE AddPointsAllFixed(addPoint(sim, pts[k].x, pts[k].y, mass, TRUE, pid + k - 1),
                           pts, k + 1, mass, pid)

RECURSIVE AddPoints(_, _, _, _, _)
\* The first loop of createBranchFromPoints: points k.. of pts are added.
AddPoints(sim, pts, k, mass, pid) ==
    IF k > Len(pts) THEN sim
    ELSE AddPoints(addPoint(sim, pts[k].x, pts[k].y, mass, k = 1, pid + k - 1),
                   pts, k + 1, mass, pid)

RECURSIVE ConnectAdjacent(_, _, _)
\* The second loop of createBranchFromPoints, from position k of indices.
ConnectAdjacent(sim, indices, k) ==
    IF k >= Len(indices) THEN sim
    ELSE ConnectAdjacent(addSpring(sim, indices[k], indices[k + 1], 200, 980),
                         indices, k + 1)

\* The indices createBranchFromPoints returns.
BranchIndices(sim, pts) == [ k \in 1..Len(pts) |-> Len(sim.points) + k - 1 ]

createBranchFromPoints(sim, pts, mass, pid) ==
    ConnectAdjacent(AddPoints(sim, pts, 1, mass, pid), BranchIndices(sim, pts), 1)

\* Mutant: the accelerations of the step before are kept.
KeepAccelerations(ps) == ps

\* update, lines 109-112
ResetAccelerations(ps) ==
    [ i \in 1..Len(ps) |-> [ps[i] EXCEPT !.ax = 0, !.ay = 0] ]

\* update, lines 115-121
ApplyGravity(ps, g) ==
    IF g > 0
    THEN [ i \in 1..Len(ps) |->
             IF ps[i].fixed THEN ps[i] ELSE [ps[i] EXCEPT !.ay = @ + g * ps[i].mass] ]
    ELSE ps

\* update, lines 124-136
ApplyWind(ps, w) ==
    IF w.x # 0 \/ w.y # 0
    THEN [ i \in 1..Len(ps) |->
             IF ps[i].fixed THEN ps[i]
             ELSE [ps[i] EXCEPT !.ax = @ + Mul(w.x - ps[i].vx, windForce),
                                !.ay = @ + Mul(w.y - ps[i].vy, windForce)] ]
    ELSE ps

\* update, lines 140-176: the force and the damping of one spring.
SpringForce(ps, spring) ==
    LET i1 == spring.point1 + 1
        i2 == spring.point2 + 1
        p1 == ps[i1]
        p2 == ps[i2]
        dx == p2.x - p1.x
        dy == p2.y - p1.y
        distance == Distance(dx, dy)
        force == Mul(distance - spring.restLength, spring.stiffness)
        fx == Quot(dx * force, distance)
        fy == Quot(dy * force, distance)
        dvx == p2.vx - p1.vx
        dvy == p2.vy - p1.vy
        q1 == IF p1.fixed THEN p1
              ELSE [p1 EXCEPT !.ax = @ + Quot(fx, p1.mass) + Mul(dvx, dampingForce),
                              !.ay = @ + Quot(fy, p1.mass) + Mul(dvy, dampingForce)]
        q2 == IF p2.fixed THEN p2
              ELSE [p2 EXCEPT !.ax = @ - Quot(fx, p2.mass) - Mul(dvx, dampingForce),
                              !.ay = @ - Quot(fy, p2.mass) - Mul(dvy, dampingForce)]
    IN  IF distance > 0 THEN [ps EXCEPT ![i1] = q1, ![i2] = q2] ELSE ps

\* Reading a field of a point that is not there: a TypeError, which ends
\* update.
Throws(ps, a, b) == ~ Defined(ps, a) \/ ~ Defined(ps, b)

RECURSIVE SpringPass(_, _, _)
\* update, lines 139-177, from spring k on.
SpringPass(st, ss, k) ==
    IF k > Len(ss) \/ st.threw THEN st
    ELSE IF Throws(st.ps, ss[k].point1, ss[k].point2)
         THEN [ps |-> st.ps, threw |-> TRUE]
         ELSE SpringPass([ps |-> SpringForce(st.ps, ss[k]), threw |-> FALSE],
                         ss, k + 1)

\* Mutant: the second point of a colliding pair is pushed even when fixed.
CollidePushingFixed(ps, i, j) ==
    LET p1 == ps[i]
        p2 == ps[j]
        dx == p2.x - p1.x
        dy == p2.y - p1.y
        distance == Distance(dx, dy)
        separation == Quot(minDistance - distance, 2)
        fx == Quot(dx * separation, distance)
        fy == Quot(dy * separation, distance)
        q1 == IF p1.fixed THEN p1 ELSE [p1 EXCEPT !.x = @ - fx, !.y = @ - fy]
        q2 == [p2 EXCEPT !.x = @ + fx, !.y = @ + fy]
    IN  IF distance < minDistance /\ distance > 0
        THEN [ps EXCEPT ![i] = q1, ![j] = q2]
        ELSE ps

\* Mutant: a colliding pair is pushed apart by the whole overlap each.
CollideByOverlap(ps, i, j) ==
    LET p1 == ps[i]
        p2 == ps[j]
        dx == p2.x - p1.x
        dy == p2.y - p1.y
        distance == Distance(dx, dy)
        separation == minDistance - distance
        fx == Quot(dx * separation, distance)
        fy == Quot(dy * separation, distance)
        q1 == IF p1.fixed THEN p1 ELSE [p1 EXCEPT !.x = @ - fx, !.y = @ - fy]
        q2 == IF p2.fixed THEN p2 ELSE [p2 EXCEPT !.x = @ + fx, !.y = @ + fy]
    IN  IF distance < minDistance /\ distance > 0
        THEN [ps EXCEPT ![i] = q1, ![j] = q2]
        ELSE ps

\* Mutant: a colliding pair is pulled together.
CollideInwards(ps, i, j) ==
    LET p1 == ps[i]
        p2 == ps[j]
        dx == p2.x - p1.x
        dy == p2.y - p1.y
        distance == Distance(dx, dy)
        separation == Quot(minDistance - distance, 2)
        fx == Quot(dx * separation, distance)
        fy == Quot(dy * separation, distance)
        q1 == IF p1.fixed THEN p1 ELSE [p1 EXCEPT !.x = @ + fx, !.y = @ + fy]
        q2 == IF p2.fixed THEN p2 ELSE [p2 EXCEPT !.x = @ - fx, !.y = @ - fy]
    IN  IF distance < minDistance /\ distance > 0
        THEN [ps EXCEPT ![i] = q1, ![j] = q2]
        ELSE ps

\* Mutant: two points at the same place are pushed apart along the x axis.
CollideCoincident(ps, i, j) ==
    LET p1 == ps[i]
        p2 == ps[j]
        dx == p2.x - p1.x
        dy == p2.y - p1.y
        distance == Distance(dx, dy)
        separation == Quot(minDistance - distance, 2)
        fx == Quot(dx * separation, distance)
        fy == Quot(dy * separation, distance)
        q1 == IF p1.fixed THEN p1 ELSE [p1 EXCEPT !.x = @ - fx, !.y = @ - fy]
        q2 == IF p2.fixed THEN p2 ELSE [p2 EXCEPT !.x = @ + fx, !.y = @ + fy]
    IN  IF distance = 0
        THEN [ps EXCEPT ![j] = IF p2.fixed THEN p2
                                ELSE [p2 EXCEPT !.x = @ + Quot(minDistance, 2)]]
        ELSE IF distance < minDistance
             THEN [ps EXCEPT ![i] = q1, ![j] = q2]
             ELSE ps

\* update, lines 182-205: the pair of points at positions i < j of the array.
Collide(ps, i, j) ==
    LET p1 == ps[i]
        p2 == ps[j]
        dx == p2.x - p1.x
        dy == p2.y - p1.y
        distance == Distance(dx, dy)
        overlap == minDistance - distance
        separation == Quot(overlap, 2)
        fx == Quot(dx * separation, distance)
        fy == Quot(dy * separation, distance)
        q1 == IF p1.fixed THEN p1 ELSE [p1 EXCEPT !.x = @ - fx, !.y = @ - fy]
        q2 == IF p2.fixed THEN p2 ELSE [p2 EXCEPT !.x = @ + fx, !.y = @ + fy]
    IN  IF distance < minDistance /\ distance > 0
        THEN [ps EXCEPT ![i] = q1, ![j] = q2]
        ELSE ps

RECURSIVE CollisionPass(_, _, _)
\* update, lines 180-207, from the pair i < j on.
CollisionPass(ps, i, j) ==
    IF i > Len(ps) THEN ps
    ELSE IF j > Len(ps) THEN CollisionPass(ps, i + 1, i + 2)
    ELSE CollisionPass(Collide(ps, i, j), i, j + 1)

RECURSIVE CollisionTrace(_, _, _)
\* update, lines 180-207: the points before and after each pair of the loop.
CollisionTrace(ps, i, j) ==
    IF i > Len(ps) THEN << >>
    ELSE IF j > Len(ps) THEN CollisionTrace(ps, i + 1, i + 2)
    ELSE << [ i |-> i, j |-> j, before |-> ps, after |-> Collide(ps, i, j) ] >>
         \o CollisionTrace(Collide(ps, i, j), i, j + 1)

\* Mutant: each endpoint is moved by the whole correction.
CorrectWhole(ps, constraint) ==
    LET i1 == constraint.points[1] + 1
        i2 == constraint.points[2] + 1
        p1 == ps[i1]
        p2 == ps[i2]
        dx == p2.x - p1.x
        dy == p2.y - p1.y
        distance == Distance(dx, dy)
        correction == Mul(constraint.targetValue - distance, constraint.strength)
        correctionX == Quot(dx * correction, distance)
        correctionY == Quot(dy * correction, distance)
        q1 == IF p1.fixed THEN p1
              ELSE [p1 EXCEPT !.x = @ - correctionX, !.y = @ - correctionY]
        q2 == IF p2.fixed THEN p2
              ELSE [p2 EXCEPT !.x = @ + correctionX, !.y = @ + correctionY]
    IN  IF distance > 0 THEN [ps EXCEPT ![i1] = q1, ![i2] = q2] ELSE ps

\* update, lines 211-235: the correction of one distance constraint.
Correct(ps, constraint) ==
    LET i1 == constraint.points[1] + 1
        i2 == constraint.points[2] + 1
        p1 == ps[i1]
        p2 == ps[i2]
        dx == p2.x - p1.x
        dy == p2.y - p1.y
        distance == Distance(dx, dy)
        difference == constraint.targetValue - distance
        correction == Mul(difference, constraint.strength)
        correctionX == Quot(Quot(dx * correction, distance), 2)
        correctionY == Quot(Quot(dy * correction, distance), 2)
        q1 == IF p1.fixed THEN p1
              ELSE [p1 EXCEPT !.x = @ - correctionX, !.y = @ - correctionY]
        q2 == IF p2.fixed THEN p2
              ELSE [p2 EXCEPT !.x = @ + correctionX, !.y = @ + correctionY]
    IN  IF distance > 0 THEN [ps EXCEPT ![i1] = q1, ![i2] = q2] ELSE ps

RECURSIVE ConstraintPass(_, _, _)
\* update, lines 210-236, from constraint k on.
ConstraintPass(st, cs, k) ==
    IF k > Len(cs) \/ st.threw THEN st
    ELSE IF Throws(st.ps, cs[k].points[1], cs[k].points[2])
         THEN [ps |-> st.ps, threw |-> TRUE]
         ELSE ConstraintPass([ps |-> Correct(st.ps, cs[k]), threw |-> FALSE],
                             cs, k + 1)

\* Mutant: the bottom edge of the canvas is not enforced.
IntegrateNoFloor(p, deltaTime, width, height) ==
    LET vx1 == Mul(p.vx + p.ax * deltaTime, airResistance)
        vy1 == Mul(p.vy + p.ay * deltaTime, airResistance)
        x1  == p.x + vx1 * deltaTime
        y1  == p.y + vy1 * deltaTime
        x2  == IF x1 < margin THEN margin ELSE x1
        x3  == IF x2 > width - margin THEN width - margin ELSE x2
        y2  == IF y1 < margin THEN margin ELSE y1
    IN  IF p.fixed THEN p
        ELSE [p EXCEPT !.x = x3, !.y = y2, !.vx = vx1, !.vy = vy1]

\* Mutant: a clamped point keeps its velocity.
IntegrateNoBounce(p, deltaTime, width, height) ==
    LET vx1 == Mul(p.vx + p.ax * deltaTime, airResistance)
        vy1 == Mul(p.vy + p.ay * deltaTime, airResistance)
        x1  == p.x + vx1 * deltaTime
        y1  == p.y + vy1 * deltaTime
        x2  == IF x1 < margin THEN margin ELSE x1
        x3  == IF x2 > width - margin THEN width - margin ELSE x2
        y2  == IF y1 < margin THEN margin ELSE y1
        y3  == IF y2 > height - margin THEN height - margin ELSE y2
    IN  IF p.fixed THEN p
        ELSE [p EXCEPT !.x = x3, !.y = y3, !.vx = vx1, !.vy = vy1]

\* update, lines 240-272: one point is moved and kept on the canvas.
Integrate(p, deltaTime, width, height) ==
    LET vx1 == Mul(p.vx + p.ax * deltaTime, airResistance)
        vy1 == Mul(p.vy + p.ay * deltaTime, airResistance)
        x1  == p.x + vx1 * deltaTime
        y1  == p.y + vy1 * deltaTime
        lowX  == x1 < margin
        x2    == IF lowX THEN margin ELSE x1
        vx2   == IF lowX THEN Mul(vx1, bounce) ELSE vx1
        highX == x2 > width - margin
        x3    == IF highX THEN width - margin ELSE x2
        vx3   == IF highX THEN Mul(vx2, bounce) ELSE vx2
        lowY  == y1 < margin
        y2    == IF lowY THEN margin ELSE y1
        vy2   == IF lowY THEN Mul(vy1, bounce) ELSE vy1
        highY == y2 > height - margin
        y3    == IF highY THEN height - margin ELSE y2
        vy3   == IF highY THEN Mul(vy2, bounce) ELSE vy2
    IN  IF p.fixed THEN p
        ELSE [p EXCEPT !.x = x3, !.y = y3, !.vx = vx3, !.vy = vy3]

\* update, lines 239-273
IntegrationPass(ps, deltaTime, width, height) ==
    [ i \in 1..Len(ps) |-> Integrate(ps[i], deltaTime, width, height) ]

\* update, lines 107-177: the points, and whether a TypeError was thrown,
\* when the collision loop is reached.
Sprung(sim) ==
    LET forces == ApplyWind(ApplyGravity(ResetAccelerations(sim.points),
                                         sim.gravity), sim.wind)
    IN  SpringPass([ps |-> forces, threw |-> FALSE], sim.springs, 1)

\* update, lines 107-236: the points, and whether a TypeError was thrown,
\* when the integration loop is reached.
BeforeIntegration(sim) ==
    LET sprung == Sprung(sim)
        pushed == IF sprung.threw THEN sprung
                  ELSE [ps |-> CollisionPass(sprung.ps, 1, 2), threw |-> FALSE]
    IN  ConstraintPass(pushed, sim.constraints, 1)

\* update(deltaTime): the simulation it leaves, and whether it ended with a
\* TypeError; a pass that throws leaves the work of the passes before it.
update(sim, deltaTime) ==
    LET held    == BeforeIntegration(sim)
        moved   == IF held.threw THEN held.ps
                   ELSE IntegrationPass(held.ps, deltaTime,
                                        sim.canvasWidth, sim.canvasHeight)
    IN  [ sim |-> [sim EXCEPT !.points = moved], threw |-> held.threw ]

clear(sim) == [sim EXCEPT !.points = << >>, !.springs = << >>, !.constraints = << >>]

\* Mutant: the indices behind the removed point are left as they were.
RenumberNothing(idx, index) == idx

\* removePoint, lines 307-308 and 313-315
Renumber(idx, index) == IF idx > index THEN idx - 1 ELSE idx

\* Mutant: an index below 0 is counted from the end of the array, as splice
\* counts it.
removePointFromEnd(sim, index) ==
    IF index < 0
    THEN [sim EXCEPT !.points = SubSeq(@, 1, Len(@) - 1)]
    ELSE IF index < Len(sim.points)
    THEN LET keptSprings ==
                 SelectSeq(sim.springs,
                           LAMBDA s : s.point1 # index /\ s.point2 # index)
             keptConstraints ==
                 SelectSeq(sim.constraints,
                           LAMBDA c : \A n \in 1..Len(c.points) : c.points[n] # index)
         IN  [sim EXCEPT
                !.springs = [ k \in 1..Len(keptSprings) |->
                                [keptSprings[k] EXCEPT
                                   !.point1 = Renumber(@, index),
                                   !.point2 = Renumber(@, index)] ],
                !.constraints = [ k \in 1..Len(keptConstraints) |->
                                    [keptConstraints[k] EXCEPT
                                       !.points = [ n \in 1..Len(@) |->
                                                      Renumber(@[n], index) ]] ],
                !.points = SubSeq(@, 1, index) \o SubSeq(@, index + 2, Len(@))]
    ELSE sim

removePoint(sim, index) ==
    IF index >= 0 /\ index < Len(sim.points)
    THEN LET keptSprings ==
                 SelectSeq(sim.springs,
                           LAMBDA s : s.point1 # index /\ s.point2 # index)
             keptConstraints ==
                 SelectSeq(sim.constraints,
                           LAMBDA c : \A n \in 1..Len(c.points) : c.points[n] # index)
         IN  [sim EXCEPT
                !.springs = [ k \in 1..Len(keptSprings) |->
                                [keptSprings[k] EXCEPT
                                   !.point1 = Renumber(@, index),
                                   !.point2 = Renumber(@, index)] ],
                !.constraints = [ k \in 1..Len(keptConstraints) |->
                                    [keptConstraints[k] EXCEPT
                                       !.points = [ n \in 1..Len(@) |->
                                                      Renumber(@[n], index) ]] ],
                !.points = SubSeq(@, 1, index) \o SubSeq(@, index + 2, Len(@))]
    ELSE sim

applyForceToPoint(sim, index, fx, fy) ==
    IF index >= 0 /\ index < Len(sim.points) /\ ~ sim.points[index + 1].fixed
    THEN [sim EXCEPT !.points[index + 1] =
             [@ EXCEPT !.ax = @ + Quot(fx, sim.points[index + 1].mass),
                       !.ay = @ + Quot(fy, sim.points[index + 1].mass)]]
    ELSE sim

\* The simulation object as one record.
Sim == [ points |-> points, springs |-> springs, constraints |-> constraints,
         wind |-> wind, gravity |-> gravity,
         canvasWidth |-> canvasWidth, canvasHeight |-> canvasHeight ]

IsSim(sim) ==
    /\ points = sim.points
    /\ springs = sim.springs
    /\ constraints = sim.constraints
    /\ wind = sim.wind
    /\ gravity = sim.gravity
    /\ canvasWidth = sim.canvasWidth
    /\ canvasHeight = sim.canvasHeight

BecomesSim(sim) ==
    /\ points' = sim.points
    /\ springs' = sim.springs
    /\ constraints' = sim.constraints
    /\ wind' = sim.wind
    /\ gravity' = sim.gravity
    /\ canvasWidth' = sim.canvasWidth
    /\ canvasHeight' = sim.canvasHeight

\* The record of a call: its name, its first (index, count or time) argument
\* and its second index argument, its point-list argument, the indices it
\* returned, whether it threw, the sizes of the three arrays before it, and,
\* for update, the points after each pair of the collision loop.
Called(kind, arg, threw) ==
    [ kind |-> kind, arg |-> arg, arg2 |-> 0, pts |-> << >>, ret |-> << >>,
      threw |-> threw, trace |-> << >>,
      n |-> Len(points), ns |-> Len(springs), nc |-> Len(constraints) ]

\* No points have been handed to the gesture recognizer.
NoGesture == [ points |-> << >>, called |-> FALSE,
               result |-> [type |-> "unknown", confidence |-> 0] ]

PhysInit ==
    /\ IsSim(NewSim)
    /\ nextPid = 1
    /\ physCalls = 0
    /\ physOp = [ kind |-> "init", arg |-> 0, arg2 |-> 0, pts |-> << >>,
                  ret |-> << >>, threw |-> FALSE, trace |-> << >>,
                  n |-> 0, ns |-> 0, nc |-> 0 ]

-----------------------------------------------------------------------------
(* The growth engine from an empty canvas *)

\* The frames: <<d, growthSpeed, drawingMode, particleEffects, callback
\* supplied>>, d the ms since the previous call.  The delays lie around the
\* growth throttle (16 ms) and the spawn cooldowns; the speeds are none, and
\* speeds that complete the shortest seeded branch in two ticks and in one.
Frames ==
    { <<16, 3000, "neural", TRUE, TRUE>>,
      <<17, 3000, "neural", TRUE, TRUE>>,
      <<1500, 2000, "neural", TRUE, TRUE>>,
      <<1500, 3000, "electric", FALSE, TRUE>>,
      <<1500, 2000, "organic", TRUE, FALSE>>,
      <<1001, 0, "organic", TRUE, TRUE>> }

\* The strokes and draws the canvas is seeded with while it grows.
GrowthSeeds ==
    { <<<< >>, "neural", Draw(0, 0, 0, 0, 0, 0, 0)>>,
      <<<< Pt(3, 4) >>, "electric", Draw(0, 0, 0, 0, 0, 0, 0)>>,
      <<<< Pt(0, 0), Pt(100, 0) >>, "neural", Draw(0, 0, 0, 0, 0, 0, 0)>>,
      <<<< Pt(0, 0), Pt(100, 0) >>, "organic", Draw(0, 999, 999, 999, 999, 999, 742)>>,
      <<<< Pt(10, 10), Pt(10, 20), Pt(0, 30) >>, "electric", Draw(500, 0, 999, 0, 500, 0, 741)>> }

\* The outcomes of the spawn draws over n branches: the sets of at most k
\* positions, among cands, that draw 0.
SpawnDraws(n, k, cands) == {d \in SUBSET (cands \cap (1..n)) : Cardinality(d) <= k}

Init == IsGrowth(EmptyCanvas) /\ PhysInit /\ gesture = NoGesture

GrowthSeed ==
    /\ \E in \in GrowthSeeds : Seed(in[1], Settings(in[2], TRUE, 25), in[3], MaxObjects)
    /\ UNCHANGED <<physVars, gestureVars>>

GrowthStep ==
    /\ frames < MaxFrames
    /\ Len(branches) <= MaxLive
    /\ \E f \in Frames, r \in Draws,
          draws \in SpawnDraws(Len(branches), MaxDraws, 1..MaxLive) :
            Step(f[1], f[2], Settings(f[3], f[4], 25), f[5], draws, r)
    /\ UNCHANGED <<physVars, gestureVars>>

GrowthClear ==
    /\ Clear
    /\ UNCHANGED <<physVars, gestureVars>>

Next ==
    \/ GrowthSeed
    \/ GrowthStep
    \/ GrowthClear

Spec == Init /\ [][Next]_vars

-----------------------------------------------------------------------------
(* The growth engine from a canvas that holds a lineage of four generations *)

NeuralOn == Settings("neural", TRUE, 25)

Draw0 == Draw(0, 0, 0, 0, 0, 0, 0)

\* One frame of the default settings at speed 3000, d ms after the previous
\* one, with the spawn draws `draws`.
Framed(g, d, draws) == Stepped(Ticked(g, d), 3000, NeuralOn, TRUE, draws, Draw0)

\* The run: one stroke seeds a branch; it completes; it spawns a child, which
\* completes and spawns in its turn, down to a completed great-grandchild.
Lineage ==
    LET seeded == Seeded(EmptyCanvas, << Pt(0, 0), Pt(100, 0) >>, NeuralOn, Draw0)
        gen0   == Framed(seeded, 17, {})
        gen1   == Framed(Framed(gen0, 1500, {1}), 17, {})
        gen2   == Framed(Framed(gen1, 1500, {2}), 17, {})
    IN  Framed(Framed(gen2, 1500, {3}), 17, {})

DeepInit == IsGrowth(Lineage) /\ PhysInit /\ gesture = NoGesture

DeepSeed ==
    /\ \E in \in GrowthSeeds :
          Seed(in[1], Settings(in[2], TRUE, 25), in[3], Lineage.nextId - 1 + DeepExtra)
    /\ UNCHANGED <<physVars, gestureVars>>

DeepStep ==
    /\ frames < Lineage.frames + DeepFrames
    /\ Len(branches) <= Len(Lineage.branches) + MaxLive
    /\ \E f \in Frames, r \in Draws,
          draws \in SpawnDraws(Len(branches), MaxDraws, 1..Len(Lineage.branches)) :
            Step(f[1], f[2], Settings(f[3], f[4], 25), f[5], draws, r)
    /\ UNCHANGED <<physVars, gestureVars>>

DeepClear ==
    /\ Clear
    /\ UNCHANGED <<physVars, gestureVars>>

DeepNext ==
    \/ DeepSeed
    \/ DeepStep
    \/ DeepClear

DeepSpec == DeepInit /\ [][DeepNext]_vars

-----------------------------------------------------------------------------
(* The growth engine from a canvas at the population cap *)

\* n one-branch strokes in a row.
RECURSIVE SeededTimes(_, _)
SeededTimes(g, n) ==
    IF n = 0 THEN g
    ELSE IF n = 1 THEN Seeded(g, << Pt(0, 0), Pt(100, 0) >>, NeuralOn, Draw0)
    ELSE CHOOSE res \in { SeededTimes(half, n - n \div 2) :
                          half \in {SeededTimes(g, n \div 2)} } : TRUE

\* The run: n strokes seed one branch each, and one frame completes them all.
Crowd(n) == Framed(SeededTimes(EmptyCanvas, n), 17, {})

CapInit ==
    /\ \E n \in (maxBranches - CapSlack)..maxBranches : IsGrowth(Crowd(n))
    /\ PhysInit
    /\ gesture = NoGesture

CapFrameInputs ==
    { <<1500, 2000, "neural", TRUE, TRUE>>,
      <<1500, 2000, "electric", TRUE, TRUE>> }

CapSeeds ==
    { <<<< Pt(0, 0), Pt(100, 0) >>, "neural", Draw(0, 0, 0, 0, 0, 0, 0)>>,
      <<<< Pt(10, 10), Pt(10, 20), Pt(0, 30) >>, "electric", Draw(500, 0, 999, 0, 500, 0, 741)>> }

CapSeed ==
    /\ \E in \in CapSeeds :
          Seed(in[1], Settings(in[2], TRUE, 25), in[3], maxBranches + CapExtra)
    /\ UNCHANGED <<physVars, gestureVars>>

CapStep ==
    /\ frames < 1 + CapFrames
    /\ \E f \in CapFrameInputs, r \in {Draw0, Draw(999, 999, 999, 999, 999, 999, 0)},
          draws \in SpawnDraws(Len(branches), MaxDraws + 1, {1, 2, maxBranches}) :
            Step(f[1], f[2], Settings(f[3], f[4], 25), f[5], draws, r)
    /\ UNCHANGED <<physVars, gestureVars>>

CapClear ==
    /\ Clear
    /\ UNCHANGED <<physVars, gestureVars>>

CapNext ==
    \/ CapSeed
    \/ CapStep
    \/ CapClear

CapSpec == CapInit /\ [][CapNext]_vars

-----------------------------------------------------------------------------
(* generateBranches over every stroke, mode, complexity and draw *)

Complexities == {5, 15, 25, 100}

SeedAny ==
    /\ Len(branches) <= SeedMaxLive
    /\ \E stroke \in Strokes, mode \in Modes, bc \in Complexities, r \in Draws :
          Seed(stroke, Settings(mode, TRUE, bc), r, SeedMaxObjects)
    /\ UNCHANGED <<physVars, gestureVars>>

SeedClear ==
    /\ Clear
    /\ UNCHANGED <<physVars, gestureVars>>

SeedNext ==
    \/ SeedAny
    \/ SeedClear

SeedSpec == Init /\ [][SeedNext]_vars

-----------------------------------------------------------------------------
(* Properties of the growth engine *)

\* The position in bs of the object id, or 0.
PosOf(bs, id) ==
    IF \E k \in 1..Len(bs) : bs[k].id = id
    THEN CHOOSE k \in 1..Len(bs) : bs[k].id = id
    ELSE 0

IsStep == lastOp.kind = "step"

\* C1: the branch set returned by one animateBranches call holds at most 500
\* branches.
C1_StepWithinCap == IsStep => Len(branches) <= 500

\* C2: when the set passed to animateBranches holds 500 branches, every
\* branch of the returned set was already in the input (none is new).
C2_NoSpawnAtCap ==
    (IsStep /\ lastOp.inLen = 500) =>
        \A k \in 1..Len(branches) : branches[k].id < lastOp.firstNew

\* The callback's calls of a step agree with `rule`: for each branch the step
\* visits, one call (with the branch's end point and colour) if rule holds of
\* the branch before and after, none otherwise; and no call for any other
\* object.
CallsFollow(rule(_, _)) ==
    /\ \A k \in 1..Min(Len(branches), 500) :
          LET before == branches[k]
              after  == branches'[PosOf(branches', before.id)]
              call   == [ id |-> before.id,
                          x |-> before.startX + Quot(Cos8(before.angle) * before.length, 1000),
                          y |-> before.startY + Quot(Sin8(before.angle) * before.length, 1000),
                          color |-> before.color ]
          IN  IF rule(before, after)
              THEN fired'[before.id] = fired[before.id] + 1 /\ call \in lastCalls'
              ELSE fired'[before.id] = fired[before.id]
                   /\ ~ \E c \in lastCalls' : c.id = before.id
    /\ \A c \in lastCalls' : \E k \in 1..Min(Len(branches), 500) : branches[k].id = c.id

FirstComplete(before, after) ==
    before.progress < before.maxProgress /\ after.progress >= after.maxProgress

FirstCompleteEnabled(before, after) ==
    lastOp'.pe /\ FirstComplete(before, after)

NoCall(before, after) == FALSE

C4_ProgressInRange ==
    \A k \in 1..Len(branches) :
        /\ 0 <= branches[k].progress
        /\ branches[k].progress <= branches[k].maxProgress
        /\ branches[k].generation >= 0

\* The latest step completed a branch (its callback ran) whose maxProgress is
\* no multiple of the step's speed: the tick was cut at maxProgress.
C4_Witness ==
    /\ IsStep /\ lastOp.speed > 0
    /\ \E k \in 1..Len(branches) :
          /\ branches[k].progress = branches[k].maxProgress
          /\ ParticleCall(branches[k]) \in lastCalls
          /\ branches[k].maxProgress % lastOp.speed # 0

\* C5: every branch of the set passed to animateBranches is in the set it
\* returns.
C5_StepKeepsEveryBranch ==
    [][lastOp'.kind = "step" =>
          \A k \in 1..Len(branches) : PosOf(branches', branches[k].id) # 0]_vars

\* C6: generateBranches on a stroke of 0 or 1 points returns no branch: the
\* live set and the objects created are as before the call.
C6_ShortStrokeSeedsNothing ==
    (lastOp.kind = "seed" /\ lastOp.strokeLen < 2) =>
        /\ Len(branches) = lastOp.inLen
        /\ nextId = lastOp.firstNew

\* A one-point stroke was seeded onto a canvas that holds a branch.
C6_Witness ==
    lastOp.kind = "seed" /\ lastOp.strokeLen = 1 /\ lastOp.inLen > 0

\* The maximum depth the claim gives for each mode.
ClaimedDepth(mode) ==
    CASE mode = "neural" -> 3
      [] mode = "electric" -> 4
      [] mode = "organic" -> 5

\* C7: in a step, every new branch is the child of a fully grown branch of
\* the input whose generation is below the mode's maximum depth, and is one
\* generation deeper; no existing branch changes generation; and if no
\* branch was deeper than the mode's maximum before, none is after.
C7_SpawnDepth ==
    [][lastOp'.kind = "step" =>
          /\ \A j \in 1..Len(branches') :
                LET c == branches'[j]
                IN  IF c.id >= nextId
                    THEN \E k \in 1..Len(branches) :
                            /\ branches[k].id = c.parent
                            /\ branches[k].progress >= branches[k].maxProgress
                            /\ branches[k].generation < ClaimedDepth(lastOp'.mode)
                            /\ c.generation = branches[k].generation + 1
                    ELSE \E k \in 1..Len(branches) :
                            /\ branches[k].id = c.id
                            /\ branches[k].generation = c.generation
          /\ (\A k \in 1..Len(branches) :
                  branches[k].generation <= ClaimedDepth(lastOp'.mode))
              => (\A j \in 1..Len(branches') :
                  branches'[j].generation <= ClaimedDepth(lastOp'.mode))]_vars

\* In a neural step, a fully grown branch of generation 3, past its
\* cooldown, drew a number below the spawn probability and got no child.
C7_Witness ==
    /\ IsStep /\ lastOp.mode = "neural" /\ lastOp.speed > 0
    /\ \E k \in 1..Len(branches) :
          /\ branches[k].generation = 3
          /\ branches[k].progress >= branches[k].maxProgress
          /\ clock - branches[k].lastGrowth > GrowthDelay("neural")
          /\ k \in lastOp.draws
          /\ \A j \in 1..k : branches[j].id < lastOp.firstNew
          /\ ~ \E j \in 1..Len(branches) : branches[j].parent = branches[k].id

-----------------------------------------------------------------------------
(* The calls of a client of the physics engine *)

SetCanvasSizeCall(width, height) ==
    /\ BecomesSim(setCanvasSize(Sim, width, height))
    /\ physOp' = Called("setCanvasSize", 0, FALSE)
    /\ physCalls' = physCalls + 1
    /\ UNCHANGED nextPid
    /\ UNCHANGED <<growthVars, gestureVars>>

SetGravityCall(g) ==
    /\ BecomesSim(setGravity(Sim, g))
    /\ physOp' = Called("setGravity", 0, FALSE)
    /\ physCalls' = physCalls + 1
    /\ UNCHANGED nextPid
    /\ UNCHANGED <<growthVars, gestureVars>>

SetWindCall(windX, windY) ==
    /\ BecomesSim(setWind(Sim, windX, windY))
    /\ physOp' = Called("setWind", 0, FALSE)
    /\ physCalls' = physCalls + 1
    /\ UNCHANGED nextPid
    /\ UNCHANGED <<growthVars, gestureVars>>

AddPointCall(x, y, mass, fixed) ==
    /\ BecomesSim(addPoint(Sim, x, y, mass, fixed, nextPid))
    /\ nextPid' = nextPid + 1
    /\ physOp' = Called("addPoint", Len(points), FALSE)
    /\ physCalls' = physCalls + 1
    /\ UNCHANGED <<growthVars, gestureVars>>

AddSpringCall(point1, point2, stiffness, damping) ==
    /\ BecomesSim(addSpring(Sim, point1, point2, stiffness, damping))
    /\ physOp' = [ Called("addSpring", point1,
                           addSpringThrows(Sim, point1, point2))
                    EXCEPT !.arg2 = point2 ]
    /\ physCalls' = physCalls + 1
    /\ UNCHANGED nextPid
    /\ UNCHANGED <<growthVars, gestureVars>>

AddDistanceConstraintCall(point1, point2, distance, strength) ==
    /\ BecomesSim(addDistanceConstraint(Sim, point1, point2, distance, strength))
    /\ physOp' = [ Called("addDistanceConstraint", point1, FALSE)
                    EXCEPT !.arg2 = point2 ]
    /\ physCalls' = physCalls + 1
    /\ UNCHANGED nextPid
    /\ UNCHANGED <<growthVars, gestureVars>>

CreateBranchFromPointsCall(pts, mass) ==
    /\ BecomesSim(createBranchFromPoints(Sim, pts, mass, nextPid))
    /\ nextPid' = nextPid + Len(pts)
    /\ physOp' = [ Called("createBranchFromPoints", Len(pts), FALSE)
                    EXCEPT !.pts = pts, !.ret = BranchIndices(Sim, pts) ]
    /\ physCalls' = physCalls + 1
    /\ UNCHANGED <<growthVars, gestureVars>>

UpdateCall(deltaTime) ==
    /\ LET res == update(Sim, deltaTime)
       IN  /\ BecomesSim(res.sim)
           /\ physOp' = [ Called("update", deltaTime, res.threw)
                           EXCEPT !.trace = IF Sprung(Sim).threw THEN << >>
                                            ELSE CollisionTrace(Sprung(Sim).ps,
                                                                1, 2) ]
    /\ physCalls' = physCalls + 1
    /\ UNCHANGED nextPid
    /\ UNCHANGED <<growthVars, gestureVars>>

ClearCall ==
    /\ BecomesSim(clear(Sim))
    /\ physOp' = Called("clear", 0, FALSE)
    /\ physCalls' = physCalls + 1
    /\ UNCHANGED nextPid
    /\ UNCHANGED <<growthVars, gestureVars>>

RemovePointCall(index) ==
    /\ BecomesSim(removePoint(Sim, index))
    /\ physOp' = Called("removePoint", index, FALSE)
    /\ physCalls' = physCalls + 1
    /\ UNCHANGED nextPid
    /\ UNCHANGED <<growthVars, gestureVars>>

ApplyForceToPointCall(index, fx, fy) ==
    /\ BecomesSim(applyForceToPoint(Sim, index, fx, fy))
    /\ physOp' = Called("applyForceToPoint", index, FALSE)
    /\ physCalls' = physCalls + 1
    /\ UNCHANGED nextPid
    /\ UNCHANGED <<growthVars, gestureVars>>

\* Index arguments: every index of a point, one below and one above.
Indices == -1..Len(points)

-----------------------------------------------------------------------------
(* The physics engine in motion *)

MaxCalls == 5

MaxPoints == 2

MaxSprings == 1

MaxConstraints == 1

\* addPoint arguments <<x, y, mass, fixed>>: on and off the canvas, closer
\* to each other than minDistance, farther, and at the same place.
PointInputs ==
    { <<0, 0, 1, TRUE>>,
      <<Units(8), Units(8), 1, FALSE>>,
      <<Units(12), Units(8), 2, FALSE>>,
      <<Units(12), Units(8), 1, TRUE>>,
      <<Units(30), Units(30), 1, FALSE>> }

\* setCanvasSize arguments: a small canvas, and one narrower than two
\* margins.
CanvasSizes == { <<Units(20), Units(20)>>, <<Units(8), Units(8)>> }

\* Index arguments of addSpring and addDistanceConstraint: two points, a
\* point and the index behind the last, a point and the index before the
\* first.
PairInputs == { <<0, 1>>, <<0, Len(points)>>, <<-1, 0>> }

DeltaTimes == {1, 2}

PhysSetCanvasSize ==
    /\ physCalls < MaxCalls
    /\ \E size \in CanvasSizes : SetCanvasSizeCall(size[1], size[2])

PhysSetGravity ==
    /\ physCalls < MaxCalls
    /\ \E g \in {0, 500} : SetGravityCall(g)

PhysSetWind ==
    /\ physCalls < MaxCalls
    /\ \E w \in { <<0, 0>>, <<1000, -500>> } : SetWindCall(w[1], w[2])

PhysAddPoint ==
    /\ physCalls < MaxCalls
    /\ Len(points) < MaxPoints
    /\ \E in \in PointInputs : AddPointCall(in[1], in[2], in[3], in[4])

PhysAddSpring ==
    /\ physCalls < MaxCalls
    /\ Len(springs) < MaxSprings
    /\ \E in \in PairInputs : AddSpringCall(in[1], in[2], 100, 990)

PhysAddDistanceConstraint ==
    /\ physCalls < MaxCalls
    /\ Len(constraints) < MaxConstraints
    /\ \E in \in PairInputs :
          AddDistanceConstraintCall(in[1], in[2], Units(20), 500)

PhysUpdate ==
    /\ physCalls < MaxCalls
    /\ \E deltaTime \in DeltaTimes : UpdateCall(deltaTime)

\* The force passed to applyForceToPoint: (3, -2).
Push == [ fx |-> Units(3), fy |-> - Units(2) ]

PhysApplyForceToPoint ==
    /\ physCalls < MaxCalls
    /\ \E index \in Indices : ApplyForceToPointCall(index, Push.fx, Push.fy)

PhysNext ==
    \/ PhysSetCanvasSize
    \/ PhysSetGravity
    \/ PhysSetWind
    \/ PhysAddPoint
    \/ PhysAddSpring
    \/ PhysAddDistanceConstraint
    \/ PhysUpdate
    \/ PhysApplyForceToPoint

PhysSpec == Init /\ [][PhysNext]_vars

-----------------------------------------------------------------------------
(* The physics engine's arrays under additions and removals *)

IndexMaxCalls == 6

IndexMaxPoints == 3

IndexMaxSprings == 2

IndexMaxConstraints == 1

Chains ==
    { << >>,
      <<Pt(Units(8), Units(8))>>,
      <<Pt(Units(8), Units(8)), Pt(Units(12), Units(8))>>,
      <<Pt(Units(8), Units(8)), Pt(Units(12), Units(8)), Pt(Units(12), Units(14))>> }

\* Index arguments of addSpring and addDistanceConstraint: neighbours, the
\* first and the last point, a point and the index behind the last, a point
\* and the index before the first.
IndexPairs ==
    { <<0, 1>>, <<1, 2>>, <<Len(points) - 1, 0>>, <<0, Len(points)>>, <<-1, 0>> }

IndexAddPoint ==
    /\ physCalls < IndexMaxCalls
    /\ Len(points) < IndexMaxPoints
    /\ \E in \in { <<0, 0, 1, TRUE>>, <<Units(8), Units(8), 1, FALSE>> } :
          AddPointCall(in[1], in[2], in[3], in[4])

IndexAddSpring ==
    /\ physCalls < IndexMaxCalls
    /\ Len(springs) < IndexMaxSprings
    /\ \E in \in IndexPairs : AddSpringCall(in[1], in[2], 100, 990)

IndexAddDistanceConstraint ==
    /\ physCalls < IndexMaxCalls
    /\ Len(constraints) < IndexMaxConstraints
    /\ \E in \in IndexPairs :
          AddDistanceConstraintCall(in[1], in[2], Units(20), 500)

IndexCreateBranchFromPoints ==
    /\ physCalls < IndexMaxCalls
    /\ \E pts \in Chains :
          /\ Len(points) + Len(pts) <= IndexMaxPoints
          /\ Len(springs) + Len(pts) - 1 <= IndexMaxSprings
          /\ CreateBranchFromPointsCall(pts, 1)

IndexRemovePoint ==
    /\ physCalls < IndexMaxCalls
    /\ \E index \in Indices : RemovePointCall(index)

IndexClear ==
    /\ physCalls < IndexMaxCalls
    /\ ClearCall

IndexNext ==
    \/ IndexAddPoint
    \/ IndexAddSpring
    \/ IndexAddDistanceConstraint
    \/ IndexCreateBranchFromPoints
    \/ IndexRemovePoint
    \/ IndexClear

IndexSpec == Init /\ [][IndexNext]_vars

-----------------------------------------------------------------------------
(* Properties of the physics engine *)

\* C8: whatever calls have been made, every point added with fixed = true
\* is at the position addPoint was given and has velocity zero.
C8_FixedPointsStay ==
    \A i \in 1..Len(points) :
        points[i].fixed =>
            /\ points[i].x = points[i].x0
            /\ points[i].y = points[i].y0
            /\ points[i].vx = 0
            /\ points[i].vy = 0

\* An update has just pushed a free point away from a fixed point that is
\* still closer to it than minDistance.
C8_Witness ==
    /\ physOp.kind = "update"
    /\ \E i, j \in 1..Len(points) :
          /\ points[i].fixed
          /\ ~ points[j].fixed
          /\ points[j].x # points[j].x0
          /\ Distance(points[j].x - points[i].x, points[j].y - points[i].y)
                < minDistance

\* The point lies in [margin, canvasWidth - margin] x [margin, canvasHeight - margin].
InCanvas(p) ==
    /\ margin <= p.x /\ p.x <= canvasWidth - margin
    /\ margin <= p.y /\ p.y <= canvasHeight - margin

PointAt(ps, idx) == IF Defined(ps, idx) THEN <<ps[idx + 1]>> ELSE << >>

\* C10: removePoint(k) with a valid k removes point k and keeps the other
\* points in order; the springs and constraints left are, in order, those
\* that did not reference k, with every index above k one lower, each
\* denoting the points it denoted before, and otherwise unchanged.
C10_RemovePointRenumbers ==
    [][ (physOp'.kind = "removePoint" /\ Defined(points, physOp'.arg)) =>
          LET k == physOp'.arg
              keptS == SelectSeq(springs, LAMBDA s : s.point1 # k /\ s.point2 # k)
              keptC == SelectSeq(constraints,
                                 LAMBDA c : c.points[1] # k /\ c.points[2] # k)
              Lowered(idx) == IF idx > k THEN idx - 1 ELSE idx
          IN  /\ Len(points') = Len(points) - 1
              /\ \A i \in 1..Len(points') :
                    points'[i] = points[IF i <= k THEN i ELSE i + 1]
              /\ Len(springs') = Len(keptS)
              /\ \A n \in 1..Len(keptS) :
                    /\ springs'[n].point1 = Lowered(keptS[n].point1)
                    /\ springs'[n].point2 = Lowered(keptS[n].point2)
                    /\ PointAt(points', springs'[n].point1)
                          = PointAt(points, keptS[n].point1)
                    /\ PointAt(points', springs'[n].point2)
                          = PointAt(points, keptS[n].point2)
                    /\ springs'[n].restLength = keptS[n].restLength
                    /\ springs'[n].stiffness = keptS[n].stiffness
                    /\ springs'[n].damping = keptS[n].damping
              /\ Len(constraints') = Len(keptC)
              /\ \A n \in 1..Len(keptC) :
                    /\ Len(constraints'[n].points) = 2
                    /\ \A e \in 1..2 :
                          /\ constraints'[n].points[e] = Lowered(keptC[n].points[e])
                          /\ PointAt(points', constraints'[n].points[e])
                                = PointAt(points, keptC[n].points[e])
                    /\ constraints'[n].targetValue = keptC[n].targetValue
                    /\ constraints'[n].strength = keptC[n].strength ]_vars

\* removePoint has just removed a point that was not the last: a spring was
\* dropped with it, and a spring between two later points is left.
C10_Witness ==
    /\ physOp.kind = "removePoint"
    /\ physOp.arg >= 0
    /\ physOp.arg < Len(points)
    /\ Len(points) = physOp.n - 1
    /\ Len(springs) >= 1
    /\ Len(springs) < physOp.ns
    /\ \E n \in 1..Len(springs) :
          /\ springs[n].point1 >= physOp.arg
          /\ springs[n].point2 >= physOp.arg
          /\ springs[n].point1 # springs[n].point2

-----------------------------------------------------------------------------
(* addSpring with an index out of range *)

\* C11: addSpring(i, j) with either index out of range (below 0, or at or
\* above the number of points) adds no spring, leaves the points, springs
\* and constraints as they were, and does not fail.
C11_OutOfRangeAddSpringIsNoOp ==
    [][ ( /\ physOp'.kind = "addSpring"
          /\ (~ Defined(points, physOp'.arg) \/ ~ Defined(points, physOp'.arg2)) )
        => /\ ~ physOp'.threw
           /\ UNCHANGED <<points, springs, constraints>> ]_vars

\* At or above the number of points the range check of line 63 returns, and
\* the call is the no-op the claim describes.
C11_TooHighIsNoOp ==
    [][ ( /\ physOp'.kind = "addSpring"
          /\ (physOp'.arg >= Len(points) \/ physOp'.arg2 >= Len(points)) )
        => /\ ~ physOp'.threw
           /\ UNCHANGED <<points, springs, constraints>> ]_vars

-----------------------------------------------------------------------------
(* applyForceToPoint and the step after it *)

\* The points an update leaves when accelerations are those of acc.
UpdatedFrom(acc, deltaTime) ==
    update([Sim EXCEPT !.points = acc], deltaTime).sim.points

\* C12: after applyForceToPoint(i, fx, fy) on a point that is not fixed, the
\* next update integrates that point's velocity with (fx/mass, fy/mass)
\* added to the acceleration the step accumulates, and an update that does
\* not directly follow the call is not affected by it; on a fixed point or
\* an index out of range the call changes nothing.
C12_ForceActsOnNextStep ==
    [][ /\ ( /\ physOp.kind = "applyForceToPoint"
             /\ Defined(points, physOp.arg)
             /\ ~ points[physOp.arg + 1].fixed
             /\ physOp'.kind = "update"
             /\ ~ physOp'.threw )
           => LET i    == physOp.arg + 1
                  held == BeforeIntegration(Sim).ps[i]
                  with == [held EXCEPT !.ax = @ + Quot(Push.fx, held.mass),
                                       !.ay = @ + Quot(Push.fy, held.mass)]
              IN  points'[i] = Integrate(with, physOp'.arg,
                                         canvasWidth, canvasHeight)
        /\ ( /\ physOp.kind # "applyForceToPoint"
             /\ physOp'.kind = "update" )
           => points' = UpdatedFrom(ResetAccelerations(points), physOp'.arg)
        /\ ( /\ physOp'.kind = "applyForceToPoint"
             /\ (~ Defined(points, physOp'.arg)
                   \/ points[physOp'.arg + 1].fixed) )
           => /\ ~ physOp'.threw
              /\ UNCHANGED <<points, springs, constraints>> ]_vars

\* What the code does: update clears every acceleration before it
\* accumulates forces (lines 109-112), so the step after applyForceToPoint
\* is the step that would have been taken without the call.
C12_ForceIsDiscarded ==
    [][ physOp'.kind = "update"
        => points' = UpdatedFrom(ResetAccelerations(points), physOp'.arg) ]_vars

-----------------------------------------------------------------------------
(* The physics engine with points closer than the minimum distance *)

CollideMaxCalls == 5

CollideMaxPoints == 3

\* addPoint arguments: points closer than 10 to one another, free and fixed,
\* on a line and across it, two of them at the same place, and one farther
\* than 10 from the others.
CollideInputs ==
    { <<Units(8), Units(8), 1, FALSE>>,
      <<Units(12), Units(8), 2, FALSE>>,
      <<Units(11), Units(12), 1, FALSE>>,
      <<Units(12), Units(8), 1, TRUE>>,
      <<Units(14), Units(12), 1, TRUE>>,
      <<Units(24), Units(8), 1, FALSE>> }

CollideAddPoint ==
    /\ physCalls < CollideMaxCalls
    /\ Len(points) < CollideMaxPoints
    /\ \E in \in CollideInputs : AddPointCall(in[1], in[2], in[3], in[4])

CollideSetGravity ==
    /\ physCalls < CollideMaxCalls
    /\ \E g \in {0, 500} : SetGravityCall(g)

\* One distance constraint between the first two points, of target 20 and
\* strength 0.5 or 1.
CollideAddDistanceConstraint ==
    /\ physCalls < CollideMaxCalls
    /\ Len(points) >= 2
    /\ constraints = << >>
    /\ \E strength \in {500, 1000} :
          AddDistanceConstraintCall(0, 1, Units(20), strength)

CollideUpdate ==
    /\ physCalls < CollideMaxCalls
    /\ UpdateCall(1)

CollideNext ==
    \/ CollideAddPoint
    \/ CollideSetGravity
    \/ CollideAddDistanceConstraint
    \/ CollideUpdate

CollideSpec == Init /\ [][CollideNext]_vars

-----------------------------------------------------------------------------
(* Collision resolution *)

\* The distance between two points.
Separation(p, q) == Distance(q.x - p.x, q.y - p.y)

\* Two lengths or coordinates agree to the resolution of the arithmetic.
Near(a, b) == Abs(a - b) <= 2

\* (10 - d)/2 for the first two points, d apart.
ClaimedPush == Quot(minDistance - Separation(points[1], points[2]), 2)

\* C13: with exactly two free points at rest, 0 < d < 10 apart and away
\* from the canvas bounds, and no gravity, wind, springs or constraints, one
\* step moves each point by (10 - d)/2, in opposite directions along the
\* line joining them: the separation after the step is 10 and the midpoint
\* is where it was.
C13_PairPushedToMinDistance ==
    [][ ( /\ physOp'.kind = "update"
          /\ Len(points) = 2
          /\ \A i \in 1..2 : /\ ~ points[i].fixed
                             /\ points[i].vx = 0
                             /\ points[i].vy = 0
                             /\ InCanvas([x |-> points[i].x - ClaimedPush,
                                          y |-> points[i].y - ClaimedPush])
                             /\ InCanvas([x |-> points[i].x + ClaimedPush,
                                          y |-> points[i].y + ClaimedPush])
          /\ gravity = 0
          /\ wind = [x |-> 0, y |-> 0]
          /\ springs = << >>
          /\ constraints = << >>
          /\ Separation(points[1], points[2]) > 0
          /\ Separation(points[1], points[2]) < minDistance )
        => LET d    == Separation(points[1], points[2])
               half == ClaimedPush
               dx   == points[2].x - points[1].x
               dy   == points[2].y - points[1].y
               m1x  == points'[1].x - points[1].x
               m1y  == points'[1].y - points[1].y
               m2x  == points'[2].x - points[2].x
               m2y  == points'[2].y - points[2].y
           IN  /\ Near(Distance(m1x, m1y), half)
               /\ Near(Distance(m2x, m2y), half)
               /\ m1x = - m2x
               /\ m1y = - m2y
               /\ Abs(m2x * d - dx * half) <= 2 * d
               /\ Abs(m2y * d - dy * half) <= 2 * d
               /\ Near(Separation(points'[1], points'[2]), minDistance)
               /\ points'[1].x + points'[2].x = points[1].x + points[2].x
               /\ points'[1].y + points'[2].y = points[1].y + points[2].y ]_vars

\* A step has just pushed two free points that were 5 apart, on a line
\* across the axes, to 10 apart.
C13_Witness ==
    /\ physOp.kind = "update"
    /\ Len(points) = 2
    /\ Len(physOp.trace) = 1
    /\ ~ points[1].fixed
    /\ ~ points[2].fixed
    /\ Separation(physOp.trace[1].before[1], physOp.trace[1].before[2]) = Units(5)
    /\ physOp.trace[1].before[1].x # physOp.trace[1].before[2].x
    /\ physOp.trace[1].before[1].y # physOp.trace[1].before[2].y
    /\ gravity = 0
    /\ points[1].vx = 0
    /\ points[1].vy = 0
    /\ Separation(points[1], points[2]) = minDistance

\* Two points are closer than the minimum distance, by a hundredth at least:
\* an overlap of a few thousandths is within the rounding of the arithmetic.
Overlapping(p, q) ==
    /\ Separation(p, q) > 0
    /\ Separation(p, q) <= minDistance - 10

\* The points when the collision loop of the last update began and ended.
PassBefore == physOp.trace[1].before

PassAfter == physOp.trace[Len(physOp.trace)].after

\* C14, as claimed: in a system of any number of points, two points whose
\* separation is positive and below 10 are strictly farther apart after the
\* step's collision resolution than before it, unless one of the two is
\* fixed and the other is not, in which case only the free point moves.
C14_CloserPairsSeparate ==
    (physOp.kind = "update" /\ physOp.trace # << >>) =>
        \A i, j \in 1..Len(PassBefore) :
            (i < j /\ Overlapping(PassBefore[i], PassBefore[j]))
            => IF PassBefore[i].fixed # PassBefore[j].fixed
               THEN LET f == IF PassBefore[i].fixed THEN i ELSE j
                    IN  PassAfter[f] = PassBefore[f]
               ELSE Separation(PassAfter[i], PassAfter[j])
                       > Separation(PassBefore[i], PassBefore[j])

\* C14, as the code has it: when the collision loop reaches a pair whose
\* separation is positive and below 10, it leaves the pair strictly farther
\* apart if at least one of the two is free, moving no fixed point and no
\* point outside the pair; a pair of two fixed points is left where it is.
C14_ResolvedPairSeparates ==
    physOp.kind = "update" =>
        \A n \in 1..Len(physOp.trace) :
            LET e  == physOp.trace[n]
                p1 == e.before[e.i]
                p2 == e.before[e.j]
            IN  Overlapping(p1, p2)
                => /\ \A k \in 1..Len(e.before) :
                         (e.before[k].fixed \/ k \notin {e.i, e.j})
                         => e.after[k] = e.before[k]
                   /\ (~ p1.fixed \/ ~ p2.fixed)
                         => Separation(e.after[e.i], e.after[e.j])
                               > Separation(p1, p2)

\* The collision loop of the last update reached two pairs closer than 10:
\* one of two fixed points and one of a fixed and a free point.
C14_Witness ==
    /\ physOp.kind = "update"
    /\ \E n \in 1..Len(physOp.trace) :
          LET e == physOp.trace[n]
          IN  /\ e.before[e.i].fixed
              /\ e.before[e.j].fixed
              /\ Overlapping(e.before[e.i], e.before[e.j])
    /\ \E n \in 1..Len(physOp.trace) :
          LET e == physOp.trace[n]
          IN  /\ e.before[e.i].fixed # e.before[e.j].fixed
              /\ Overlapping(e.before[e.i], e.before[e.j])
              /\ e.after # e.before

-----------------------------------------------------------------------------
(* update with springs and constraints that name no point *)

\* The simulation without the springs and constraints that name a missing
\* point.
WithoutDangling ==
    [Sim EXCEPT
        !.springs = SelectSeq(@, LAMBDA s : ~ Throws(points, s.point1, s.point2)),
        !.constraints =
            SelectSeq(@, LAMBDA c : ~ Throws(points, c.points[1], c.points[2]))]

\* C15: whatever calls came before it, update completes without failing: a
\* spring or constraint whose index denotes no point contributes nothing to
\* the step, which is the step of the simulation without it.
C15_UpdateSkipsDangling ==
    [][ physOp'.kind = "update"
        => /\ ~ physOp'.threw
           /\ points' = update(WithoutDangling, physOp'.arg).sim.points ]_vars

\* What the code does: update completes exactly when no spring and no
\* constraint names a missing point.
C15_UpdateFailsOnDangling ==
    [][ physOp'.kind = "update"
        => physOp'.threw =
              \/ \E n \in 1..Len(springs) :
                    Throws(points, springs[n].point1, springs[n].point2)
              \/ \E n \in 1..Len(constraints) :
                    Throws(points, constraints[n].points[1],
                           constraints[n].points[2]) ]_vars

-----------------------------------------------------------------------------
(* The branches generateBranches returns *)

\* The positions in the live set of the branches the last call appended.
Appended == (lastOp.inLen + 1)..Len(branches)

\* C16: for every stroke of at least 2 points, every mode and every
\* complexity, generateBranches returns at least one branch, and every
\* branch it returns has generation 0, progress 0 and its start at one of
\* the stroke's points.
C16_SeedsRootBranchesOnStroke ==
    (lastOp.kind = "seed" /\ lastOp.strokeLen >= 2) =>
        /\ Appended # {}
        /\ \A k \in Appended :
              /\ branches[k].generation = 0
              /\ branches[k].progress = 0
              /\ \E i \in 1..Len(lastOp.stroke) :
                    /\ lastOp.stroke[i].x = branches[k].startX
                    /\ lastOp.stroke[i].y = branches[k].startY

\* A stroke of three or more points has just seeded branches at two of its
\* points, in a mode and at a complexity for which the sample count
\* computed from the stroke is above 1.
C16_Witness ==
    /\ lastOp.kind = "seed"
    /\ lastOp.strokeLen >= 3
    /\ \E k, m \in Appended :
          \/ branches[k].startX # branches[m].startX
          \/ branches[k].startY # branches[m].startY

\* A two-point stroke has just seeded a single branch: the sample count
\* computed from the stroke was 0 and was raised to 1.
C16_WitnessRaised ==
    /\ lastOp.kind = "seed"
    /\ lastOp.strokeLen = 2
    /\ Cardinality(Appended) = 1

-----------------------------------------------------------------------------
(* class GestureRecognizer (lines 372-838 of physicsSimulation.ts)          *)
(*                                                                         *)
(* Coordinates and lengths are counted in tenths of a pixel, confidences   *)
(* and ratios in thousandths, angles in degrees.  NaN is a value of its    *)
(* own: every comparison with it is false, and Math.max and Math.min       *)
(* return it when one argument is it.                                      *)

Px(n) == n * 10

NaN == -1000000

\* a > b and a < b on JavaScript numbers.
Gt(a, b) == a # NaN /\ b # NaN /\ a > b

Lt(a, b) == a # NaN /\ b # NaN /\ a < b

MathMax(a, b) == IF a = NaN \/ b = NaN THEN NaN ELSE Max(a, b)

MathMin(a, b) == IF a = NaN \/ b = NaN THEN NaN ELSE Min(a, b)

minPoints == 5

circleThreshold == 750

lineThreshold == 850

\* A detector's answer; the geometry a GestureResult carries next to type
\* and confidence is not modelled.
Result(type, confidence) == [ type |-> type, confidence |-> confidence ]

distance(p1, p2) == Distance(p1.x - p2.x, p1.y - p2.y)

RECURSIVE Simplified(_, _)
\* The loop of simplifyPoints: `simplified` after index i (from 1) of pts.
Simplified(pts, i) ==
    IF i = 1 THEN << pts[1] >>
    ELSE CHOOSE res \in
            { IF distance(pts[i], simplified[Len(simplified)]) > Px(5)
              THEN Append(simplified, pts[i])
              ELSE simplified :
              simplified \in { Simplified(pts, i - 1) } } : TRUE

simplifyPoints(pts) ==
    IF Len(pts) <= 2 THEN pts
    ELSE Append(Simplified(pts, Len(pts) - 1), pts[Len(pts)])

getBoundingBox(pts) ==
    LET xs == { pts[i].x : i \in 1..Len(pts) }
        ys == { pts[i].y : i \in 1..Len(pts) }
    IN  [ minX |-> CHOOSE v \in xs : \A w \in xs : v <= w,
          minY |-> CHOOSE v \in ys : \A w \in ys : v <= w,
          maxX |-> CHOOSE v \in xs : \A w \in xs : v >= w,
          maxY |-> CHOOSE v \in ys : \A w \in ys : v >= w ]

\* Math.min(width, height) / Math.max(width, height): 0 / 0 is NaN.
AspectRatio(boundingBox) ==
    LET width  == boundingBox.maxX - boundingBox.minX
        height == boundingBox.maxY - boundingBox.minY
    IN  IF Max(width, height) = 0 THEN NaN
        ELSE Quot(Min(width, height) * 1000, Max(width, height))

RECURSIVE SumTo(_, _)
\* The sum of the first n elements of a sequence of numbers.
SumTo(seq, n) == IF n = 0 THEN 0 ELSE SumTo(seq, n - 1) + seq[n]

pointToLineDistance(point, lineStart, lineEnd) ==
    LET A == point.x - lineStart.x
        B == point.y - lineStart.y
        C == lineEnd.x - lineStart.x
        D == lineEnd.y - lineStart.y
        dot == A * C + B * D
        lenSq == C * C + D * D
        closestPoint ==
            IF dot < 0 THEN lineStart
            ELSE IF dot > lenSq THEN lineEnd
            ELSE [ x |-> lineStart.x + Quot(dot * C, lenSq),
                   y |-> lineStart.y + Quot(dot * D, lenSq) ]
    IN  IF lenSq = 0 THEN distance(point, lineStart)
        ELSE distance(point, closestPoint)

detectLine(pts) ==
    IF Len(pts) < 2 THEN Result("line", 0)
    ELSE LET deviation == [ i \in 1..Len(pts) |->
                              pointToLineDistance(pts[i], pts[1], pts[Len(pts)]) ]
             avgDeviation == Quot(SumTo(deviation, Len(pts)), Len(pts))
         IN  Result("line", Max(0, 1000 - 5 * avgDeviation))

\* The direction Math.atan2 gives a segment: that of the x axis for a
\* segment of length 0.
Heading(from, to) ==
    IF from.x = to.x /\ from.y = to.y THEN [x |-> Px(1), y |-> 0]
    ELSE [x |-> to.x - from.x, y |-> to.y - from.y]

\* findCorners, lines 756-765: the path turns by more than 30 degrees at
\* curr, that is, the cosine of the turn is below cos 30 = 0.866.
Turns(prev, curr, next) ==
    LET u == Heading(prev, curr)
        v == Heading(curr, next)
    IN  (u.x * v.x + u.y * v.y) * 500
           < 433 * Distance(u.x, u.y) * Distance(v.x, v.y)

RECURSIVE CornersFrom(_, _)
\* The loop of findCorners from index i (from 1) of pts.
CornersFrom(pts, i) ==
    IF i > Len(pts) - 1 THEN << >>
    ELSE (IF Turns(pts[i - 1], pts[i], pts[i + 1]) THEN << pts[i] >> ELSE << >>)
         \o CornersFrom(pts, i + 1)

findCorners(pts) == IF Len(pts) < 3 THEN << >> ELSE CornersFrom(pts, 2)

\* getAngle(p1, vertex, p2) is NaN: one of the two arms has length 0.
NoAngle(p1, vertex, p2) ==
    \/ (p1.x = vertex.x /\ p1.y = vertex.y)
    \/ (p2.x = vertex.x /\ p2.y = vertex.y)

\* Math.abs(getAngle(p1, vertex, p2) - 90) < 25: the cosine of the angle is
\* between cos 115 and cos 65 = 0.4226.
NearRightAngle(p1, vertex, p2) ==
    /\ ~ NoAngle(p1, vertex, p2)
    /\ Abs((p1.x - vertex.x) * (p2.x - vertex.x)
           + (p1.y - vertex.y) * (p2.y - vertex.y)) * 1000
          < 423 * distance(p1, vertex) * distance(p2, vertex)

\* The sum of getTriangleAngles(corners): the three angles of a triangle
\* add up to 180 degrees, and to NaN if two of its corners coincide.
AngleSum(corners) ==
    IF \E i \in 1..3 : NoAngle(corners[i], corners[(i % 3) + 1],
                               corners[((i + 1) % 3) + 1])
    THEN NaN
    ELSE 180

detectTriangle(pts) ==
    LET corners == findCorners(pts)
        angleSum == AngleSum(SubSeq(corners, 1, 3))
        angleConfidence == IF angleSum = NaN THEN NaN
                           ELSE 1000 - Quot(Abs(angleSum - 180) * 1000, 180)
    IN  IF Len(corners) < 3 THEN Result("triangle", 0)
        ELSE Result("triangle",
                    MathMax(0, IF angleConfidence = NaN THEN NaN
                               ELSE Quot(angleConfidence * 8, 10)))

checkPerimeterDistribution(pts, boundingBox) ==
    LET width  == boundingBox.maxX - boundingBox.minX
        height == boundingBox.maxY - boundingBox.minY
        \* |v - w| < Math.min(width, height) * 0.1
        Close(v, w) == Abs(v - w) * 10 < Min(width, height)
        all == 1..Len(pts)
        topPoints    == Cardinality({ i \in all : Close(pts[i].y, boundingBox.minY) })
        bottomPoints == Cardinality({ i \in all : Close(pts[i].y, boundingBox.maxY) })
        leftPoints   == Cardinality({ i \in all : Close(pts[i].x, boundingBox.minX) })
        rightPoints  == Cardinality({ i \in all : Close(pts[i].x, boundingBox.maxX) })
        totalSidePoints == topPoints + bottomPoints + leftPoints + rightPoints
        \* four times the variance
        variance4 == Abs(4 * topPoints - totalSidePoints)
                     + Abs(4 * bottomPoints - totalSidePoints)
                     + Abs(4 * leftPoints - totalSidePoints)
                     + Abs(4 * rightPoints - totalSidePoints)
    IN  IF totalSidePoints = 0 THEN NaN
        ELSE Max(0, 1000 - Quot(variance4 * 250, totalSidePoints))

detectSquare(pts, boundingBox) ==
    LET aspectRatio == AspectRatio(boundingBox)
        corners == findCorners(pts)
        n == Len(corners)
        rightAngles ==
            IF n >= 4
            THEN Cardinality({ i \in 0..(Min(4, n) - 1) :
                     NearRightAngle(corners[i + 1], corners[((i + 1) % n) + 1],
                                    corners[((i + 2) % n) + 1]) })
            ELSE 0
        perimeterDistribution == checkPerimeterDistribution(pts, boundingBox)
        cornerScore == IF n >= 4 THEN Min(n * 250, 1000) ELSE n * 250
        angleScore == rightAngles * 250
        confidence ==
            IF perimeterDistribution = NaN \/ aspectRatio = NaN THEN NaN
            ELSE Quot(cornerScore * 4 + angleScore * 3 + aspectRatio * 2
                      + perimeterDistribution, 10)
    IN  IF Lt(aspectRatio, 700) THEN Result("square", 0)
        ELSE IF n < 3 \/ n > 6 THEN Result("square", 0)
        ELSE Result("square", MathMin(confidence, 950))

detectCircle(pts, boundingBox) ==
    LET center == [ x |-> Quot(boundingBox.minX + boundingBox.maxX, 2),
                    y |-> Quot(boundingBox.minY + boundingBox.maxY, 2) ]
        width  == boundingBox.maxX - boundingBox.minX
        height == boundingBox.maxY - boundingBox.minY
        aspectRatio == AspectRatio(boundingBox)
        expectedRadius == Quot(Min(width, height), 2)
        deviation == [ i \in 1..Len(pts) |->
                         Abs(distance(pts[i], center) - expectedRadius) ]
        \* deviation < expectedRadius * 0.3
        valid == { i \in 1..Len(pts) : deviation[i] * 10 < expectedRadius * 3 }
        validPoints == Cardinality(valid)
        totalDeviation ==
            SumTo([ i \in 1..Len(pts) |-> IF i \in valid THEN deviation[i] ELSE 0 ],
                  Len(pts))
        avgDeviation == Quot(totalDeviation, validPoints)
        deviationScore == Max(0, 1000 - Quot(avgDeviation * 5000, expectedRadius))
        coverageScore == Quot(validPoints * 1000, Len(pts))
        corners == findCorners(pts)
        cornerPenalty == IF Len(corners) > 2 THEN (Len(corners) - 2) * 100 ELSE 0
        confidence ==
            IF aspectRatio = NaN THEN NaN
            ELSE Quot(deviationScore * 5 + aspectRatio * 3 + coverageScore * 2, 10)
                 - cornerPenalty
    IN  IF Lt(aspectRatio, 800) THEN Result("circle", 0)
        ELSE IF validPoints * 10 < Len(pts) * 7 THEN Result("circle", 0)
        ELSE Result("circle", MathMax(0, MathMin(confidence, 950)))

getCentroid(pts) ==
    [ x |-> Quot(SumTo([ i \in 1..Len(pts) |-> pts[i].x ], Len(pts)), Len(pts)),
      y |-> Quot(SumTo([ i \in 1..Len(pts) |-> pts[i].y ], Len(pts)), Len(pts)) ]

\* Math.atan of num / den, for 0 <= num <= den and den > 0, to the nearest
\* multiple of 5 degrees.
AtanDegrees(num, den) ==
    LET t == Quot(num * 10000, den)
    IN  CASE t < 437  -> 0
          [] t >= 437  /\ t < 1317 -> 5
          [] t >= 1317 /\ t < 2217 -> 10
          [] t >= 2217 /\ t < 3153 -> 15
          [] t >= 3153 /\ t < 4142 -> 20
          [] t >= 4142 /\ t < 5206 -> 25
          [] t >= 5206 /\ t < 6371 -> 30
          [] t >= 6371 /\ t < 7673 -> 35
          [] t >= 7673 /\ t < 9163 -> 40
          [] OTHER -> 45

\* Math.atan2(dy, dx) in degrees, in -180..180, to the nearest multiple of 5.
Atan2Degrees(dy, dx) ==
    LET a == IF dx = 0 /\ dy = 0 THEN 0
             ELSE IF Abs(dy) <= Abs(dx) THEN AtanDegrees(Abs(dy), Abs(dx))
             ELSE 90 - AtanDegrees(Abs(dx), Abs(dy))
    IN  IF dx >= 0 THEN (IF dy >= 0 THEN a ELSE - a)
        ELSE (IF dy >= 0 THEN 180 - a ELSE a - 180)

RECURSIVE AngleChange(_, _, _, _)
\* The loop of detectSpiral from index i (from 1) of pts: totalAngleChange,
\* in degrees.
AngleChange(pts, center, i, previousAngle) ==
    IF i > Len(pts) THEN 0
    ELSE LET angle == Atan2Degrees(pts[i].y - center.y, pts[i].x - center.x)
             angleDiff == angle - previousAngle
             normalizedDiff == IF angleDiff > 180 THEN angleDiff - 360
                               ELSE IF angleDiff < -180 THEN angleDiff + 360
                               ELSE angleDiff
         IN  Abs(normalizedDiff) + AngleChange(pts, center, i + 1, angle)

detectSpiral(pts) ==
    LET totalAngleChange == AngleChange(pts, getCentroid(pts), 2, 0)
        \* turns > 1.5 ? turns / 3 : 0, with turns = totalAngleChange / 360
        confidence == IF totalAngleChange > 540
                      THEN Quot(totalAngleChange * 1000, 1080) ELSE 0
    IN  IF Len(pts) < 10 THEN Result("spiral", 0)
        ELSE Result("spiral", Min(1000, confidence))

detectWave(pts) ==
    LET inner == 2..(Len(pts) - 1)
        valleys == Cardinality({ i \in inner : /\ pts[i].y < pts[i - 1].y
                                               /\ pts[i].y < pts[i + 1].y })
        peaks == Cardinality({ i \in inner : /\ pts[i].y > pts[i - 1].y
                                             /\ pts[i].y > pts[i + 1].y })
        oscillations == peaks + valleys
    IN  IF Len(pts) < 8 THEN Result("wave", 0)
        ELSE Result("wave", Min(1000, IF oscillations >= 3
                                      THEN Quot(oscillations * 1000, 6) ELSE 0))

detectStar(pts) ==
    LET corners == findCorners(pts)
        n == Len(corners)
        center == getCentroid(pts)
        distances == [ i \in 1..n |-> distance(corners[i], center) ]
        \* sortedDistances[Math.floor(n / 2)]
        median == CHOOSE d \in { distances[i] : i \in 1..n } :
                     /\ Cardinality({ i \in 1..n : distances[i] < d }) <= n \div 2
                     /\ Cardinality({ i \in 1..n : distances[i] <= d }) > n \div 2
        alternating == Cardinality({ i \in 1..n :
                           /\ distances[i] > median
                           /\ distances[(i % n) + 1] <= median })
    IN  IF n < 5 THEN Result("star", 0)
        ELSE Result("star", Min(1000, IF alternating >= 3
                                      THEN alternating * 200 ELSE 0))

\* recognizeGesture, lines 383-422: the detectors asked in turn.
Cascade(simplified) ==
    LET boundingBox == getBoundingBox(simplified)
        lineResult == detectLine(simplified)
        squareResult == detectSquare(simplified, boundingBox)
        triangleResult == detectTriangle(simplified)
        circleResult == detectCircle(simplified, boundingBox)
        spiralResult == detectSpiral(simplified)
        waveResult == detectWave(simplified)
        starResult == detectStar(simplified)
    IN  IF Gt(lineResult.confidence, lineThreshold) THEN lineResult
        ELSE IF Gt(squareResult.confidence, 700) THEN squareResult
        ELSE IF Gt(triangleResult.confidence, 700) THEN triangleResult
        ELSE IF Gt(circleResult.confidence, circleThreshold) THEN circleResult
        ELSE IF Gt(spiralResult.confidence, 600) THEN spiralResult
        ELSE IF Gt(waveResult.confidence, 600) THEN waveResult
        ELSE IF Gt(starResult.confidence, 600) THEN starResult
        ELSE Result("unknown", 0)

\* Mutant: strokes of fewer than minPoints points are classified too.
recognizeGestureAnyLength(pts) ==
    CHOOSE res \in
        { Cascade(simplified) : simplified \in { simplifyPoints(pts) } } : TRUE

\* recognizeGesture, lines 378-423.
recognizeGesture(pts) ==
    IF Len(pts) < minPoints THEN Result("unknown", 0)
    ELSE CHOOSE res \in
            { Cascade(simplified) : simplified \in { simplifyPoints(pts) } } : TRUE

-----------------------------------------------------------------------------
(* The gesture recognizer over strokes drawn point by point and over shapes *)

MaxGesturePoints == 6

\* The pointer's moves between two points of a stroke: 10 pixels along an
\* axis, or none.
Moves == { Pt(Px(10), 0), Pt(0, Px(10)), Pt(- Px(10), 0), Pt(0, - Px(10)),
           Pt(0, 0) }

Shapes ==
    { \* a circle of radius 30
      << Pt(700, 400), Pt(680, 510), Pt(610, 610), Pt(510, 680),
         Pt(400, 700), Pt(290, 680), Pt(190, 610), Pt(120, 510),
         Pt(100, 400), Pt(120, 290), Pt(190, 190), Pt(290, 120),
         Pt(400, 100), Pt(510, 120), Pt(610, 190), Pt(680, 290),
         Pt(700, 400) >>,
      \* a square of side 40, closed and begun again
      << Pt(100, 100), Pt(200, 100), Pt(300, 100), Pt(400, 100),
         Pt(500, 100), Pt(500, 200), Pt(500, 300), Pt(500, 400),
         Pt(500, 500), Pt(400, 500), Pt(300, 500), Pt(200, 500),
         Pt(100, 500), Pt(100, 400), Pt(100, 300), Pt(100, 200),
         Pt(100, 100), Pt(200, 100) >>,
      \* a triangle
      << Pt(100, 500), Pt(200, 350), Pt(300, 200), Pt(400, 350),
         Pt(500, 500), Pt(400, 500), Pt(300, 500), Pt(200, 500),
         Pt(100, 500), Pt(150, 420) >>,
      \* a nearly straight line
      << Pt(100, 100), Pt(200, 120), Pt(300, 140), Pt(400, 150),
         Pt(500, 180) >>,
      \* two periods of a sine wave
      << Pt(0, 400), Pt(60, 439), Pt(120, 455), Pt(180, 439), Pt(240, 400),
         Pt(300, 361), Pt(360, 345), Pt(420, 361), Pt(480, 400),
         Pt(540, 439), Pt(600, 455), Pt(660, 439), Pt(720, 400),
         Pt(780, 361), Pt(840, 345), Pt(900, 361) >>,
      \* two turns of a spiral
      << Pt(660, 500), Pt(656, 557), Pt(632, 611), Pt(589, 654),
         Pt(532, 681), Pt(467, 687), Pt(402, 670), Pt(345, 630),
         Pt(305, 571), Pt(286, 500), Pt(293, 425), Pt(327, 355),
         Pt(384, 299), Pt(459, 266), Pt(542, 260), Pt(625, 283),
         Pt(696, 335), Pt(746, 410), Pt(768, 500), Pt(757, 594),
         Pt(714, 680), Pt(643, 748), Pt(551, 788), Pt(448, 793),
         Pt(348, 763), Pt(263, 699), Pt(203, 608), Pt(178, 500),
         Pt(192, 388), Pt(244, 285), Pt(330, 206), Pt(440, 159),
         Pt(561, 153), Pt(679, 190), Pt(779, 266), Pt(848, 373),
         Pt(876, 500), Pt(859, 631), Pt(797, 749), Pt(697, 841),
         Pt(569, 894) >>,
      \* a stroke drawn four times over the same segment
      << Pt(200, 400), Pt(1000, 400), Pt(900, 400), Pt(1000, 400),
         Pt(900, 400), Pt(1000, 400), Pt(900, 400), Pt(1000, 400),
         Pt(900, 400), Pt(880, 470), Pt(200, 440) >>,
      \* five times the same point
      << Pt(300, 300), Pt(300, 300), Pt(300, 300), Pt(300, 300),
         Pt(300, 300) >>,
      \* four corners of a square
      << Pt(100, 100), Pt(500, 100), Pt(500, 500), Pt(100, 500) >>,
      \* a scribble
      << Pt(100, 100), Pt(500, 400), Pt(120, 200), Pt(480, 120),
         Pt(300, 500), Pt(140, 300), Pt(520, 280), Pt(200, 480) >> }

\* A stroke handed to the recognizer: nothing asked, nothing answered yet.
Drawn(pts) == [ points |-> pts, called |-> FALSE,
                result |-> [type |-> "unknown", confidence |-> 0] ]

GestureInit ==
    /\ IsGrowth(EmptyCanvas)
    /\ PhysInit
    /\ \E pts \in Shapes \cup { << Pt(Px(30), Px(30)) >> } : gesture = Drawn(pts)

\* The pointer moves and the stroke gets one more point.
GestureDraw ==
    /\ ~ gesture.called
    /\ Len(gesture.points) < MaxGesturePoints
    /\ \E m \in Moves :
          LET last == gesture.points[Len(gesture.points)]
          IN  gesture' = Drawn(Append(gesture.points,
                                      Pt(last.x + m.x, last.y + m.y)))
    /\ UNCHANGED <<growthVars, physVars>>

GestureRecognize ==
    /\ ~ gesture.called
    /\ gesture' = [ points |-> gesture.points, called |-> TRUE,
                    result |-> recognizeGesture(gesture.points) ]
    /\ UNCHANGED <<growthVars, physVars>>

GestureNext ==
    \/ GestureDraw
    \/ GestureRecognize

GestureSpec == GestureInit /\ [][GestureNext]_vars

-----------------------------------------------------------------------------
(* The answers of the gesture recognizer *)

\* The confidence above which each label is returned.
ClaimedThreshold(type) ==
    CASE type = "line"     -> 850
      [] type = "square"   -> 700
      [] type = "triangle" -> 700
      [] type = "circle"   -> 750
      [] type = "spiral"   -> 600
      [] type = "wave"     -> 600
      [] type = "star"     -> 600

\* C17: recognizeGesture returns a label out of circle, line, triangle,
\* square, spiral, star, wave and unknown, with a confidence in [0, 1];
\* fewer than 5 points give unknown with confidence 0, and a label other
\* than unknown is returned only with a confidence above that shape's
\* threshold.
C17_LabelAndConfidence ==
    gesture.called =>
        /\ gesture.result.type \in { "circle", "line", "triangle", "square",
                                     "spiral", "star", "wave", "unknown" }
        /\ gesture.result.confidence >= 0
        /\ gesture.result.confidence <= 1000
        /\ Len(gesture.points) < 5 =>
              /\ gesture.result.type = "unknown"
              /\ gesture.result.confidence = 0
        /\ gesture.result.type # "unknown" =>
              gesture.result.confidence > ClaimedThreshold(gesture.result.type)

\* A stroke was classified as a star, a detector having answered NaN
\* before the star detector was asked.
C17_Witness ==
    /\ gesture.called
    /\ gesture.result.type = "star"
    /\ detectTriangle(simplifyPoints(gesture.points)).confidence = NaN

-----------------------------------------------------------------------------
(* createBranchFromPoints *)

\* C18: createBranchFromPoints given n points appends n points in order and
\* returns their n consecutive indices, marks only the first of them fixed, and
\* adds exactly n - 1 springs, one between each pair of consecutive new points;
\* for n = 0 it adds nothing.
C18_ChainOfPointsAndSprings ==
    [][ physOp'.kind = "createBranchFromPoints" =>
          LET pts  == physOp'.pts
              n    == Len(pts)
              base == Len(points)
              had  == Len(springs)
          IN  /\ Len(points') = base + n
              /\ SubSeq(points', 1, base) = points
              /\ \A k \in 1..n :
                    /\ points'[base + k].x = pts[k].x
                    /\ points'[base + k].y = pts[k].y
                    /\ points'[base + k].fixed = (k = 1)
              /\ physOp'.ret = [ k \in 1..n |-> base + k - 1 ]
              /\ Len(springs') = had + (IF n = 0 THEN 0 ELSE n - 1)
              /\ SubSeq(springs', 1, had) = springs
              /\ \A k \in 1..(n - 1) :
                    /\ springs'[had + k].point1 = base + k - 1
                    /\ springs'[had + k].point2 = base + k
              /\ constraints' = constraints
              /\ n = 0 => (points' = points /\ springs' = springs)
      ]_vars

\* A two-point chain has been appended behind a point that was there already.
C18_Witness ==
    /\ physOp.kind = "createBranchFromPoints"
    /\ physOp.arg = 2
    /\ Len(points) = 3
    /\ ~ points[3].fixed
    /\ Len(springs) >= 1
    /\ springs[Len(springs)].point1 = 1
    /\ springs[Len(springs)].point2 = 2

-----------------------------------------------------------------------------
(* The bounce at the edge of the canvas *)

\* Velocity and position of point p after lines 242-252 of update, before
\* the boundary tests.
Integrated(p, deltaTime) ==
    LET vx == Mul(p.vx + p.ax * deltaTime, airResistance)
        vy == Mul(p.vy + p.ay * deltaTime, airResistance)
    IN  [ vx |-> vx, vy |-> vy, x |-> p.x + vx * deltaTime, y |-> p.y + vy * deltaTime ]

\* Whether the lower test, and then the upper test, of a component at c clamp
\* it on a canvas of the given size.
ClampedLow(c) == c < margin

ClampedHigh(c, size) == (IF ClampedLow(c) THEN margin ELSE c) > size - margin

\* The claimed velocity of a component: -0.3 times the integrated one when the
\* component was clamped, the integrated one otherwise.
ClaimedBounce(v, c, size) ==
    IF ClampedLow(c) \/ ClampedHigh(c, size) THEN Mul(v, bounce) ELSE v

\* The velocity of a component when each clamp multiplies it by -0.3.
BouncePerClamp(v, c, size) ==
    LET low == IF ClampedLow(c) THEN Mul(v, bounce) ELSE v
    IN  IF ClampedHigh(c, size) THEN Mul(low, bounce) ELSE low

\* C19 as stated: in the integration pass of update, whenever a non-fixed
\* point's position component is clamped to a canvas bound, the corresponding
\* velocity component is replaced by -0.3 times the value it had after
\* integration, and a component that is not clamped keeps its integrated
\* velocity.
C19_ClampedVelocityIsScaledOnce ==
    [][ (physOp'.kind = "update" /\ ~ physOp'.threw) =>
          \A i \in 1..Len(points) :
             ~ points[i].fixed =>
                LET after == Integrated(BeforeIntegration(Sim).ps[i], physOp'.arg)
                IN  /\ points'[i].vx = ClaimedBounce(after.vx, after.x, canvasWidth)
                    /\ points'[i].vy = ClaimedBounce(after.vy, after.y, canvasHeight)
      ]_vars

\* C19 (amended): each clamp of a non-fixed point's position component
\* multiplies the corresponding velocity component by -0.3: one clamp leaves
\* -0.3 times the integrated value, both clamps of one component (on a canvas
\* narrower or lower than two margins) leave 0.09 times it, and a component
\* that is not clamped keeps its integrated velocity.
C19_EachClampScalesVelocity ==
    [][ (physOp'.kind = "update" /\ ~ physOp'.threw) =>
          \A i \in 1..Len(points) :
             ~ points[i].fixed =>
                LET after == Integrated(BeforeIntegration(Sim).ps[i], physOp'.arg)
                IN  /\ points'[i].vx = BouncePerClamp(after.vx, after.x, canvasWidth)
                    /\ points'[i].vy = BouncePerClamp(after.vy, after.y, canvasHeight)
      ]_vars

\* An update has left a free point on the bottom bound of a canvas of at
\* least two margins, moving upwards: it fell onto the bound and bounced.
C19_Witness ==
    /\ physOp.kind = "update"
    /\ ~ physOp.threw
    /\ canvasHeight >= 2 * margin
    /\ \E i \in 1..Len(points) :
          /\ ~ points[i].fixed
          /\ points[i].y = canvasHeight - margin
          /\ points[i].vy < 0

-----------------------------------------------------------------------------
(* The growth tick *)

\* C20: in a step at time now, a branch's progress changes only if
\* progress < maxProgress and more than 16 ms have elapsed since its
\* lastGrowth; in that case progress becomes
\* min(maxProgress, progress + growthSpeed / 50) and lastGrowth becomes now;
\* otherwise progress is left unchanged, so a freshly seeded or spawned branch
\* does not grow before its jittered start time has passed.  The branches are
\* those the step visits, the first maxBranches of the set.
C20_GrowthTick ==
    [][ lastOp'.kind = "step" =>
          \A k \in 1..Min(Len(branches), maxBranches) :
             LET before == branches[k]
                 now    == clock'
             IN  \E j \in 1..Len(branches') :
                    LET after == branches'[j]
                    IN  /\ after.id = before.id
                        /\ IF before.progress < before.maxProgress
                              /\ now - before.lastGrowth > 16
                           THEN /\ after.progress =
                                      Min(before.maxProgress,
                                          before.progress + lastOp'.speed)
                                /\ after.lastGrowth = now
                           ELSE after.progress = before.progress
                        /\ now <= before.lastGrowth =>
                              /\ after.progress = before.progress
                              /\ after.lastGrowth = before.lastGrowth
      ]_vars

\* The latest step made one branch grow without completing it and left
\* another, whose start time had not passed, where it was.
C20_Witness ==
    /\ IsStep
    /\ \E k \in 1..Len(branches) :
          /\ branches[k].progress > 0
          /\ branches[k].progress < branches[k].maxProgress
          /\ branches[k].lastGrowth = clock
    /\ \E k \in 1..Len(branches) :
          /\ branches[k].progress = 0
          /\ branches[k].lastGrowth > clock

-----------------------------------------------------------------------------
(* What a step changes on a branch *)

\* C21: a step leaves the start position, angle, length, generation,
\* maxProgress and colour of every existing branch unchanged; the only fields
\* it may change on an existing branch are progress, lastGrowth and opacity,
\* and the opacity pulse applied to fully grown branches never changes
\* progress: a branch ends the step with the progress it had or with the one
\* its growth tick gave it.  The branches are those the step visits, the first maxBranches of
\* the set.
C21_StepChangesThreeFields ==
    [][ lastOp'.kind = "step" =>
          \A k \in 1..Min(Len(branches), maxBranches) :
             LET before == branches[k]
             IN  \E j \in 1..Len(branches') :
                    LET after == branches'[j]
                    IN  /\ after.id = before.id
                        /\ after.startX = before.startX
                        /\ after.startY = before.startY
                        /\ after.angle = before.angle
                        /\ after.length = before.length
                        /\ after.generation = before.generation
                        /\ after.maxProgress = before.maxProgress
                        /\ after.color = before.color
                        /\ after = [before EXCEPT !.progress = after.progress,
                                                  !.lastGrowth = after.lastGrowth,
                                                  !.opacity = after.opacity]
                        /\ before.progress >= before.maxProgress =>
                              after.progress = before.progress
                        /\ after.progress \in
                              { before.progress,
                                Min(before.maxProgress,
                                    before.progress + lastOp'.speed) }
      ]_vars

\* The latest step pulsed a fully grown root branch: its opacity is one that
\* seeding does not give.
C21_Witness ==
    /\ IsStep
    /\ clock % 100 < 16
    /\ \E k \in 1..Len(branches) :
          /\ branches[k].generation = 0
          /\ branches[k].progress = branches[k].maxProgress
          /\ (branches[k].opacity < 800 \/ branches[k].opacity >= 1000)

-----------------------------------------------------------------------------
(* Points at the same place *)

\* The points at indices a and b of ps are there and at the same position.
Coincident(ps, a, b) ==
    /\ Defined(ps, a)
    /\ Defined(ps, b)
    /\ ps[a + 1].x = ps[b + 1].x
    /\ ps[a + 1].y = ps[b + 1].y

\* update, lines 109-136: the points when the spring loop is reached.
Forced(sim) ==
    ApplyWind(ApplyGravity(ResetAccelerations(sim.points), sim.gravity), sim.wind)

\* update, lines 107-207: the points when the constraint loop is reached.
Pushed(sim) == CollisionPass(Sprung(sim).ps, 1, 2)

\* C22: when two points referenced by a spring, a colliding pair or a distance
\* constraint are at exactly the same position, update applies no spring
\* force, no damping force, no collision push and no constraint correction
\* for that pair, and every position, velocity and acceleration stays a
\* number.  A pair is at the same position when its loop reaches it.
C22_CoincidentPairsAreSkipped ==
    [][ (physOp'.kind = "update" /\ ~ physOp'.threw) =>
          /\ (\A k \in 1..Len(springs) :
                 Coincident(points, springs[k].point1, springs[k].point2))
              => \A i \in 1..Len(points) :
                    /\ points'[i].ax = Forced(Sim)[i].ax
                    /\ points'[i].ay = Forced(Sim)[i].ay
          /\ \A k \in 1..Len(physOp'.trace) :
                 LET pair == physOp'.trace[k]
                 IN  Coincident(pair.before, pair.i - 1, pair.j - 1)
                       => pair.after = pair.before
          /\ (\A k \in 1..Len(constraints) :
                 Coincident(Pushed(Sim), constraints[k].points[1],
                            constraints[k].points[2]))
              => points' = IntegrationPass(Pushed(Sim), physOp'.arg,
                                           canvasWidth, canvasHeight)
          /\ \A i \in 1..Len(points') :
                 /\ points'[i].x \in Int /\ points'[i].y \in Int
                 /\ points'[i].vx \in Int /\ points'[i].vy \in Int
                 /\ points'[i].ax \in Int /\ points'[i].ay \in Int
      ]_vars

\* An update has met two points at the same place, tied by a spring and by a
\* distance constraint, in its collision loop.
C22_Witness ==
    /\ physOp.kind = "update"
    /\ ~ physOp.threw
    /\ Len(springs) = 1
    /\ Len(constraints) = 1
    /\ springs[1].point1 # springs[1].point2
    /\ constraints[1].points[1] # constraints[1].points[2]
    /\ Len(physOp.trace) = 1
    /\ Coincident(physOp.trace[1].before, 0, 1)
    /\ physOp.trace[1].after = physOp.trace[1].before

-----------------------------------------------------------------------------
(* Springs over the life of a simulation *)

SpringMaxCalls == 7

SpringMaxPoints == 3

\* addPoint arguments <<x, y, mass, fixed>>.
SpringPoints ==
    { <<0, 0, 1, TRUE>>, <<Units(8), Units(8), 1, FALSE>>,
      <<Units(30), Units(30), 2, FALSE>> }

SpringAddPoint ==
    /\ physCalls < SpringMaxCalls
    /\ Len(points) < SpringMaxPoints
    /\ \E in \in SpringPoints : AddPointCall(in[1], in[2], in[3], in[4])

SpringAddSpring ==
    /\ physCalls < SpringMaxCalls
    /\ Len(springs) < Len(points)
    /\ \E in \in { <<0, 1>>, <<1, 2>> } : AddSpringCall(in[1], in[2], 100, 990)

SpringSetGravity ==
    /\ physCalls < SpringMaxCalls
    /\ gravity = 0
    /\ SetGravityCall(500)

SpringSetWind ==
    /\ physCalls < SpringMaxCalls
    /\ wind.x = 0
    /\ SetWindCall(1000, -500)

SpringApplyForceToPoint ==
    /\ physCalls < SpringMaxCalls
    /\ Len(points) > 1
    /\ ApplyForceToPointCall(1, Push.fx, Push.fy)

SpringUpdate ==
    /\ physCalls < SpringMaxCalls
    /\ Len(points) > 1
    /\ UpdateCall(1)

SpringRemovePoint ==
    /\ physCalls < SpringMaxCalls
    /\ \E index \in 0..(Len(points) - 1) : RemovePointCall(index)

SpringNext ==
    \/ SpringAddPoint
    \/ SpringAddSpring
    \/ SpringSetGravity
    \/ SpringSetWind
    \/ SpringApplyForceToPoint
    \/ SpringUpdate
    \/ SpringRemovePoint

SpringSpec == Init /\ [][SpringNext]_vars

\* What a spring is made of, next to the indices of its points.
Temper(spring) ==
    [ restLength |-> spring.restLength, stiffness |-> spring.stiffness,
      damping |-> spring.damping ]

Tempers(ss) == [ k \in 1..Len(ss) |-> Temper(ss[k]) ]

\* The springs that do not end at the point of the given index.
Surviving(ss, index) ==
    SelectSeq(ss, LAMBDA spring : spring.point1 # index /\ spring.point2 # index)

\* C23: a spring's restLength equals the Euclidean distance between its two
\* points at the moment addSpring was called, and no later operation (update,
\* applyForceToPoint, removePoint of another point, setGravity, setWind)
\* changes the restLength, stiffness or damping of a surviving spring.
C23_RestLengthIsCaptured ==
    [][ /\ (physOp'.kind = "addSpring" /\ Len(springs') # Len(springs)) =>
              LET p1 == points[physOp'.arg + 1]
                  p2 == points[physOp'.arg2 + 1]
                  made == springs'[Len(springs')]
              IN  /\ Len(springs') = Len(springs) + 1
                  /\ SubSeq(springs', 1, Len(springs)) = springs
                  /\ made.point1 = physOp'.arg
                  /\ made.point2 = physOp'.arg2
                  /\ made.restLength = Distance(p2.x - p1.x, p2.y - p1.y)
        /\ physOp'.kind \in { "update", "applyForceToPoint", "setGravity",
                               "setWind", "addPoint" } =>
              springs' = springs
        /\ physOp'.kind = "removePoint" =>
              Tempers(springs') = Tempers(Surviving(springs, physOp'.arg))
      ]_vars

\* A spring made between two points has outlived an update that moved them and
\* the removal of the point before them: it carries smaller indices and a rest
\* length that is no longer the distance between its points.
C23_Witness ==
    /\ physOp.kind = "removePoint"
    /\ Len(points) = 2
    /\ Len(springs) = 1
    /\ springs[1].point1 = 0
    /\ springs[1].point2 = 1
    /\ springs[1].restLength > 0
    /\ springs[1].restLength #
          Distance(points[2].x - points[1].x, points[2].y - points[1].y)

-----------------------------------------------------------------------------
(* The distance constraint *)

\* The move of a point from p to q.
Move(p, q) == [ x |-> q.x - p.x, y |-> q.y - p.y ]

\* The thousandths a correction `by` of a pair d apart may be off by: those
\* cut from the four moved coordinates, and those cut from d, which the
\* correction multiplies by its size over d.
Slack(by, d) == 4 + Quot(Abs(by), d)

\* The move m has the length and the sense of `by` along the line (dx, dy) of
\* length d.
Along(m, by, dx, dy, d) ==
    /\ Abs(Distance(m.x, m.y) - Abs(by)) <= Slack(by, d)
    /\ Abs(m.x * d - dx * by) <= 2 * d
    /\ Abs(m.y * d - dy * by) <= 2 * d

\* C24: for a distance constraint with target t and strength s in [0, 1]
\* between two points at positive separation d, the constraint pass of update
\* moves the separation toward t: with both endpoints free each moves by
\* s (t - d) / 2 in opposite directions along the line joining them, giving
\* separation d + s (t - d) (t when s = 1), and with one endpoint fixed only
\* the free endpoint moves.  d is the separation when the pass begins, taken
\* from 1 up, where thousandths resolve the direction of the line, and
\* lengths are met to the thousandths lost in the divisions; the integration
\* pass then starts from the corrected points.
C24_ConstraintMovesTowardTarget ==
    [][ (physOp'.kind = "update" /\ ~ physOp'.threw /\ Len(constraints) = 1) =>
          LET c      == constraints[1]
              i1     == c.points[1] + 1
              i2     == c.points[2] + 1
              before == Pushed(Sim)
              held   == BeforeIntegration(Sim).ps
              p1     == before[i1]
              p2     == before[i2]
              d      == Separation(p1, p2)
              dx     == p2.x - p1.x
              dy     == p2.y - p1.y
              whole  == Mul(c.targetValue - d, c.strength)
              half   == Quot(whole, 2)
              m1     == Move(p1, held[i1])
              m2     == Move(p2, held[i2])
          IN  d >= Units(1) =>
                /\ points' = IntegrationPass(held, physOp'.arg,
                                             canvasWidth, canvasHeight)
                /\ \A k \in 1..Len(points) :
                       (k \notin {i1, i2} \/ before[k].fixed) => held[k] = before[k]
                /\ ~ p1.fixed => Along(m1, - half, dx, dy, d)
                /\ ~ p2.fixed => Along(m2, half, dx, dy, d)
                /\ (~ p1.fixed /\ ~ p2.fixed) =>
                       /\ m1.x = - m2.x
                       /\ m1.y = - m2.y
                       /\ Abs(Separation(held[i1], held[i2]) - (d + whole))
                             <= Slack(whole, d)
                       /\ c.strength = 1000 =>
                             Abs(Separation(held[i1], held[i2]) - c.targetValue)
                                <= Slack(whole, d)
      ]_vars

\* An update has corrected a constraint of strength 1 between two free points
\* that the collision loop had left 10 apart: they are farther apart now.
C24_Witness ==
    /\ physOp.kind = "update"
    /\ ~ physOp.threw
    /\ Len(points) = 2
    /\ Len(constraints) = 1
    /\ constraints[1].strength = 1000
    /\ ~ points[1].fixed
    /\ ~ points[2].fixed
    /\ Len(physOp.trace) = 1
    /\ Near(Separation(physOp.trace[1].after[1], physOp.trace[1].after[2]),
            minDistance)
    /\ Separation(points[1], points[2]) > minDistance + Units(2)

\* An update has corrected a constraint between a free point and a fixed one.
C24_WitnessOneFixed ==
    /\ physOp.kind = "update"
    /\ ~ physOp.threw
    /\ Len(points) = 2
    /\ Len(constraints) = 1
    /\ ~ points[1].fixed
    /\ points[2].fixed
    /\ Separation(points[1], points[2]) > minDistance + Units(2)

-----------------------------------------------------------------------------
(* Air resistance *)

\* No other point of the simulation is within minDistance of point i.
Alone(i) ==
    \A j \in 1..Len(points) :
        j # i => Separation(points[i], points[j]) >= minDistance

\* v is no larger than u and not of the other sign.
Decayed(v, u) == Abs(v) <= Abs(u) /\ v * u >= 0

\* C25 as stated: for a non-fixed point that stays inside the canvas bounds,
\* with gravity = 0, wind = 0, no springs, no constraints and no other point
\* within 10 units, each update multiplies both velocity components by 0.999,
\* so their magnitudes never grow and their signs never flip, and a point
\* whose velocity is zero keeps its position.
C25_VelocityDecays ==
    [][ ( /\ physOp'.kind = "update"
          /\ gravity = 0
          /\ wind = [x |-> 0, y |-> 0]
          /\ springs = << >>
          /\ constraints = << >> )
        => \A i \in 1..Len(points) :
              LET p  == points[i]
                  q  == points'[i]
                  dt == physOp'.arg
                  vx == Mul(p.vx, airResistance)
                  vy == Mul(p.vy, airResistance)
              IN  ( /\ ~ p.fixed
                    /\ Alone(i)
                    /\ InCanvas([x |-> p.x + vx * dt, y |-> p.y + vy * dt]) )
                  => /\ q.vx = vx
                     /\ q.vy = vy
                     /\ Decayed(q.vx, p.vx)
                     /\ Decayed(q.vy, p.vy)
                     /\ q.x = p.x + vx * dt
                     /\ q.y = p.y + vy * dt
                     /\ (p.vx = 0 /\ p.vy = 0) => (q.x = p.x /\ q.y = p.y)
      ]_vars

\* No pair of the collision loop found point i closer than minDistance to its
\* other point, at the positions the loop had reached by then.
Unpushed(trace, i) ==
    \A k \in 1..Len(trace) :
        (trace[k].i = i \/ trace[k].j = i) =>
            Separation(trace[k].before[trace[k].i], trace[k].before[trace[k].j])
               >= minDistance

\* C25 (amended): for a non-fixed point that stays inside the canvas bounds,
\* with gravity = 0, wind = 0, no springs and no constraints, and which no
\* pair of the collision loop finds within 10 units of another point at the
\* positions the loop has reached, each update multiplies both velocity
\* components by 0.999, so their magnitudes never grow and their signs never
\* flip, and a point whose velocity is zero keeps its position.  A push given
\* to a neighbour earlier in the loop can bring that neighbour within 10 units
\* of a point that had none there when the update began.
C25_VelocityDecaysUnpushed ==
    [][ ( /\ physOp'.kind = "update"
          /\ gravity = 0
          /\ wind = [x |-> 0, y |-> 0]
          /\ springs = << >>
          /\ constraints = << >> )
        => \A i \in 1..Len(points) :
              LET p  == points[i]
                  q  == points'[i]
                  dt == physOp'.arg
                  vx == Mul(p.vx, airResistance)
                  vy == Mul(p.vy, airResistance)
              IN  ( /\ ~ p.fixed
                    /\ Unpushed(physOp'.trace, i)
                    /\ InCanvas([x |-> p.x + vx * dt, y |-> p.y + vy * dt]) )
                  => /\ q.vx = vx
                     /\ q.vy = vy
                     /\ Decayed(q.vx, p.vx)
                     /\ Decayed(q.vy, p.vy)
                     /\ q.x = p.x + vx * dt
                     /\ q.y = p.y + vy * dt
                     /\ (p.vx = 0 /\ p.vy = 0) => (q.x = p.x /\ q.y = p.y)
      ]_vars

\* An update without forces has moved a free point that was falling: it is on
\* the canvas, still falling, and nothing accelerates it.
C25_Witness ==
    /\ physOp.kind = "update"
    /\ ~ physOp.threw
    /\ gravity = 0
    /\ wind = [x |-> 0, y |-> 0]
    /\ springs = << >>
    /\ constraints = << >>
    /\ Len(points) = 1
    /\ ~ points[1].fixed
    /\ points[1].vy > 0
    /\ points[1].ay = 0
    /\ points[1].y > points[1].y0
    /\ margin < points[1].y /\ points[1].y < canvasHeight - margin

-----------------------------------------------------------------------------
(* lastGrowth *)

\* The branch of the set bs that carries the identity id.
WithId(bs, id) == bs[CHOOSE j \in 1..Len(bs) : bs[j].id = id]

\* The step that led to the branches bs made a child of the branch `id`.
SpawnedFrom(bs, id, firstNew) ==
    \E j \in 1..Len(bs) : bs[j].parent = id /\ bs[j].id >= firstNew

\* C26: for every branch, lastGrowth never decreases over any sequence of
\* steps made with a non-decreasing clock: every growth tick and every spawn
\* event sets it to a value strictly greater than the value it had before.
\* The branches are those the step visits, the first maxBranches of the set.
C26_LastGrowthNeverDecreases ==
    [][ lastOp'.kind = "step" =>
          \A k \in 1..Min(Len(branches), maxBranches) :
             LET before == branches[k]
                 after  == WithId(branches', before.id)
             IN  /\ after.lastGrowth >= before.lastGrowth
                 /\ after.lastGrowth \in {before.lastGrowth, clock'}
                 /\ after.progress # before.progress =>
                       after.lastGrowth > before.lastGrowth
                 /\ (before.progress < before.maxProgress
                       /\ clock' - before.lastGrowth > 16) =>
                       after.lastGrowth > before.lastGrowth
                 /\ SpawnedFrom(branches', before.id, lastOp'.firstNew) =>
                       /\ after.lastGrowth = clock'
                       /\ after.lastGrowth > before.lastGrowth
      ]_vars

\* The latest step made a child of a branch, whose lastGrowth is the time of
\* the step, and ticked another branch.
C26_Witness ==
    /\ IsStep
    /\ \E k \in 1..Len(branches) :
          /\ SpawnedFrom(branches, branches[k].id, lastOp.firstNew)
          /\ branches[k].lastGrowth = clock
    /\ \E k \in 1..Len(branches) :
          /\ branches[k].progress > 0
          /\ branches[k].progress < branches[k].maxProgress
          /\ branches[k].lastGrowth = clock

-----------------------------------------------------------------------------
(* removePoint of a point that is not there *)

\* C27: removePoint(k) with k below 0 or at least the number of points is a
\* no-op: points, springs and constraints, every stored index included, are
\* unchanged and no error is raised.
C27_OutOfRangeRemoveIsNoOp ==
    [][ ( /\ physOp'.kind = "removePoint"
          /\ (physOp'.arg < 0 \/ physOp'.arg >= Len(points)) )
        => /\ points' = points
           /\ springs' = springs
           /\ constraints' = constraints
           /\ ~ physOp'.threw
      ]_vars

\* removePoint(-1) has been called on a simulation of points tied by a spring
\* and by a distance constraint.
C27_Witness ==
    /\ physOp.kind = "removePoint"
    /\ physOp.arg = -1
    /\ Len(points) >= 2
    /\ Len(springs) >= 1
    /\ Len(constraints) >= 1

\* removePoint has been called with the index behind the last point.
C27_WitnessBehind ==
    /\ physOp.kind = "removePoint"
    /\ physOp.arg = Len(points)
    /\ Len(points) >= 2
    /\ Len(springs) >= 1

-----------------------------------------------------------------------------
(* The cooldown of a spawn *)

\* The cooldown claimed for each drawing mode, in ms.
ClaimedCooldown(mode) ==
    CASE mode = "neural"   -> 1000
      [] mode = "electric" -> 800
      [] mode = "organic"  -> 1500

\* C28: a branch never spawns a child in a step in which it received a growth
\* tick: the step that completes a branch sets its lastGrowth to now, so the
\* first spawn from that branch can happen only in a later step, once more
\* than the mode's cooldown (neural 1000 ms, electric 800 ms, organic 1500 ms)
\* has elapsed, and after each spawn the same cooldown applies again to that
\* parent.  The mode is the drawing mode of the step.
C28_SpawnAfterCooldown ==
    [][ lastOp'.kind = "step" =>
          \A k \in 1..Min(Len(branches), maxBranches) :
             LET before == branches[k]
                 after  == WithId(branches', before.id)
                 ticked == /\ before.progress < before.maxProgress
                           /\ clock' - before.lastGrowth > 16
             IN  /\ SpawnedFrom(branches', before.id, lastOp'.firstNew) =>
                       /\ ~ ticked
                       /\ after.progress = before.progress
                       /\ before.progress >= before.maxProgress
                       /\ clock' - before.lastGrowth > ClaimedCooldown(lastOp'.mode)
                       /\ after.lastGrowth = clock'
                 /\ (ticked /\ after.progress >= after.maxProgress) =>
                       after.lastGrowth = clock'
      ]_vars

\* The latest step made a child of a root branch that an earlier step had
\* completed.
C28_Witness ==
    /\ IsStep
    /\ frames >= 2
    /\ \E k \in 1..Len(branches) :
          /\ branches[k].generation = 0
          /\ branches[k].progress = branches[k].maxProgress
          /\ SpawnedFrom(branches, branches[k].id, lastOp.firstNew)
          /\ branches[k].lastGrowth = clock

-----------------------------------------------------------------------------
(* The stroke points generateBranches samples *)

\* The angle offsets generateBranches can add to the tangent in a mode, over
\* the draws of the exploration.
AngleOffsets(mode) ==
    { Quot((r.a - 500) * 4 * AngleVariation(mode), 10000) : r \in Draws }

\* C29: for every stroke of n >= 2 points and every sample count, each stroke
\* index sampled by generateBranches lies in [0, n - 2]: the index is always
\* valid, the last stroke point is never used as a branch origin, and the
\* tangent is therefore always computed from the sampled point to its
\* successor.
C29_SampledIndexInRange ==
    (lastOp.kind = "seed" /\ lastOp.strokeLen >= 2) =>
        LET stroke == lastOp.stroke
            n      == Len(stroke)
        IN  /\ \A num \in 1..n : \A i \in 0..(num - 1) :
                  PointIndex(n, i, num) \in 0..(n - 2)
            /\ \A k \in Appended :
                  \E idx \in 0..(n - 2) :
                     /\ branches[k].startX = stroke[idx + 1].x
                     /\ branches[k].startY = stroke[idx + 1].y
                     /\ \E offset \in AngleOffsets(lastOp.mode) :
                           branches[k].angle =
                              Atan2(stroke[idx + 2].y - stroke[idx + 1].y,
                                    stroke[idx + 2].x - stroke[idx + 1].x) + offset

\* A stroke that turns has just seeded a branch at its first point, whose
\* tangent is not 0: the branch's angle is the tangent plus an offset.
C29_Witness ==
    /\ lastOp.kind = "seed"
    /\ lastOp.strokeLen = 3
    /\ \E k \in Appended :
          LET tangent == Atan2(lastOp.stroke[2].y - lastOp.stroke[1].y,
                               lastOp.stroke[2].x - lastOp.stroke[1].x)
          IN  /\ branches[k].startX = lastOp.stroke[1].x
              /\ branches[k].startY = lastOp.stroke[1].y
              /\ tangent # 0
              /\ branches[k].angle - tangent \in AngleOffsets(lastOp.mode)

\* A long stroke has just seeded branches at two of its points.
C29_WitnessLong ==
    /\ lastOp.kind = "seed"
    /\ lastOp.strokeLen >= LongStrokeLen
    /\ \E k, m \in Appended : branches[k].startX # branches[m].startX

-----------------------------------------------------------------------------
(* A canvas whose frames keep coming *)

\* The run: strokes are seeded and spawn draws succeed during the first
\* LiveSpawnFrames frames, and LiveGrowFrames more frames follow.
LiveSpawnFrames == 3

LiveGrowFrames == 3

LiveMaxObjects == 2

\* The frames of the run: <<d, growthSpeed, drawingMode>>, each more than
\* 16 ms after the previous one and each with a positive speed.
LiveFrames ==
    { <<17, 2000, "neural">>,
      <<1001, 3000, "electric">> }

\* The draws of the run: none, and draws that put a new branch's first
\* tick 10 ms (seeded) or 5 ms (spawned) in the future.
LiveDraws == { Draw(0, 0, 0, 0, 0, 0, 0), Draw(0, 999, 999, 500, 0, 0, 5) }

\* Canvas.stopDrawing: the first stroke, of two points, is finished.
LiveSeed ==
    /\ frames < LiveSpawnFrames
    /\ branches = << >>
    /\ \E r \in LiveDraws :
          Seed(<< Pt(0, 0), Pt(100, 0) >>, Settings("neural", TRUE, 25), r, LiveMaxObjects)
    /\ UNCHANGED <<physVars, gestureVars>>

\* Canvas.animate: requestAnimationFrame calls it again and again, and it
\* runs animateBranches once the frame interval (1000 / 30 ms) has passed.
LiveStep ==
    /\ frames < LiveSpawnFrames + LiveGrowFrames
    /\ \E f \in LiveFrames, r \in {Draw(0, 999, 999, 500, 0, 0, 5)},
          draws \in IF frames < LiveSpawnFrames /\ nextId <= LiveMaxObjects
                    THEN SpawnDraws(Len(branches), MaxDraws, 1..LiveMaxObjects)
                    ELSE {{}} :
            Step(f[1], f[2], Settings(f[3], TRUE, 25), TRUE, draws, r)
    /\ UNCHANGED <<physVars, gestureVars>>

LiveNext ==
    \/ LiveSeed
    \/ LiveStep

\* The animation loop never stops asking for its next frame (line 541 of
\* Header.tsx), so a frame that can come does come.
LiveSpec == Init /\ [][LiveNext]_vars /\ WF_vars(LiveStep)

\* Every branch of the live set is fully grown.
AllGrown == \A k \in 1..Len(branches) : branches[k].progress = branches[k].maxProgress

\* The object id is in the live set and fully grown.
GrownId(id) ==
    \E k \in 1..Len(branches) :
       branches[k].id = id /\ branches[k].progress = branches[k].maxProgress

=============================================================================
